---- MODULE Spec2Model ----
(***************************************************************************)
(* Model of the T-IR -> O-IR -> WAT pipeline of tools/oir and              *)
(* tools/pipeline: lowering (lower_from_tir.py), the optimisation passes   *)
(* (const_fold.py, cse.py, dce.py) and code generation                     *)
(* (compile_oir_to_wat.py).                                                *)
(*                                                                         *)
(* JSON documents are records, JSON arrays are sequences, names and value  *)
(* ids are strings ("%r1" is a value id, "f" a function name).  Python     *)
(* integers are unbounded: integer literals are sign/magnitude numbers     *)
(* with base-256 limbs, so that the masks 0xFFFFFFFF and                   *)
(* 0xFFFFFFFFFFFFFFFF keep their real width.  Float literals are exact     *)
(* rationals num/den (IEEE rounding, infinities and NaN are not modelled). *)
(***************************************************************************)
EXTENDS Integers, Sequences, FiniteSets, TLC

VARIABLES
    oir,     \* the O-IR document the passes mutate in place
    orig,    \* the O-IR document as it was handed to the first pass
    prev,    \* the O-IR document as it was before the last operation
    hist,    \* the operations applied so far, oldest first
    tir,     \* the T-IR document given to lower()
    report,  \* LowerFromTIR.report (PassReport) of the lowerer instance
    wat,     \* outcome of oir_to_wat: status and text
    drv,     \* the run of a command-line driver: arguments, position, exit
             \* code, the output files written, the stages entered
    first    \* the module an earlier lower() call of the same lowerer
             \* instance returned, with the T-IR given to that call

vars == <<oir, orig, prev, hist, tir, report, wat, drv, first>>

-----------------------------------------------------------------------------
(* Python integers: sign and little-endian base-256 magnitude.             *)

Max2(a, b) == IF a >= b THEN a ELSE b

RECURSIVE MagNorm(_)
MagNorm(m) ==
    IF m = <<>> THEN <<>>
    ELSE IF m[Len(m)] = 0 THEN MagNorm(SubSeq(m, 1, Len(m) - 1)) ELSE m

Limb(m, i) == IF i <= Len(m) THEN m[i] ELSE 0

RECURSIVE MagAddFrom(_, _, _, _)
MagAddFrom(a, b, i, carry) ==
    IF i > Max2(Len(a), Len(b))
    THEN (IF carry = 0 THEN <<>> ELSE <<carry>>)
    ELSE LET s == Limb(a, i) + Limb(b, i) + carry
         IN  <<s % 256>> \o MagAddFrom(a, b, i + 1, s \div 256)

MagAdd(a, b) == MagNorm(MagAddFrom(a, b, 1, 0))

RECURSIVE MagLessFrom(_, _, _)
MagLessFrom(a, b, i) ==
    IF i = 0 THEN FALSE
    ELSE IF Limb(a, i) # Limb(b, i) THEN Limb(a, i) < Limb(b, i)
    ELSE MagLessFrom(a, b, i - 1)

MagLess(a, b) == MagLessFrom(a, b, Max2(Len(a), Len(b)))

RECURSIVE MagSubFrom(_, _, _, _)
MagSubFrom(a, b, i, borrow) ==
    IF i > Len(a) THEN <<>>
    ELSE LET d == Limb(a, i) - Limb(b, i) - borrow
         IN  IF d < 0
             THEN <<d + 256>> \o MagSubFrom(a, b, i + 1, 1)
             ELSE <<d>> \o MagSubFrom(a, b, i + 1, 0)

\* a - b for magnitudes with a >= b
MagSub(a, b) == MagNorm(MagSubFrom(a, b, 1, 0))

RECURSIVE MagScaleFrom(_, _, _, _)
MagScaleFrom(a, d, i, carry) ==
    IF i > Len(a)
    THEN (IF carry = 0 THEN <<>> ELSE <<carry>>)
    ELSE LET p == a[i] * d + carry
         IN  <<p % 256>> \o MagScaleFrom(a, d, i + 1, p \div 256)

RECURSIVE MagMulFrom(_, _, _)
MagMulFrom(a, b, j) ==
    IF j > Len(b) THEN <<>>
    ELSE MagAdd(MagNorm(MagScaleFrom(a, b[j], 1, 0)),
                MagNorm(<<0>> \o MagMulFrom(a, b, j + 1)))

MagMul(a, b) == MagNorm(MagMulFrom(a, b, 1))

RECURSIVE NatToMag(_)
NatToMag(n) == IF n = 0 THEN <<>> ELSE <<n % 256>> \o NatToMag(n \div 256)

RECURSIVE MagToNat(_)
MagToNat(m) == IF m = <<>> THEN 0 ELSE m[1] + 256 * MagToNat(Tail(m))

BigInt(neg, mag) ==
    [t |-> "int", neg |-> (neg /\ MagNorm(mag) # <<>>), mag |-> MagNorm(mag),
     num |-> 0, den |-> 1]

\* the Python int n, for a small n
I(n) == IF n < 0 THEN BigInt(TRUE, NatToMag(0 - n)) ELSE BigInt(FALSE, NatToMag(n))

BigNeg(a) == BigInt(~a.neg, a.mag)

BigAdd(a, b) ==
    IF a.neg = b.neg THEN BigInt(a.neg, MagAdd(a.mag, b.mag))
    ELSE IF MagLess(a.mag, b.mag) THEN BigInt(b.neg, MagSub(b.mag, a.mag))
    ELSE BigInt(a.neg, MagSub(a.mag, b.mag))

BigSub(a, b) == BigAdd(a, BigNeg(b))

BigMul(a, b) == BigInt(a.neg # b.neg, MagMul(a.mag, b.mag))

\* 2^(8*w) as a magnitude
PowLimbs(w) == [i \in 1..(w + 1) |-> IF i = w + 1 THEN 1 ELSE 0]

\* Python's a & mask for a mask 2^(8*w) - 1 (w = number of limbs of the mask):
\* the low w limbs of the two's complement of a.
BigAnd(a, mask) ==
    LET w   == Len(mask.mag)
        low == MagNorm([i \in 1..w |-> Limb(a.mag, i)])
    IN  IF ~a.neg \/ low = <<>> THEN BigInt(FALSE, low)
        ELSE BigInt(FALSE, MagSub(PowLimbs(w), low))

\* the masks of const_fold.py
MASK32 == BigInt(FALSE, <<255, 255, 255, 255>>)
MASK64 == BigInt(FALSE, <<255, 255, 255, 255, 255, 255, 255, 255>>)

-----------------------------------------------------------------------------
(* Python floats, as exact rationals num/den with den > 0.                 *)

Abs(n) == IF n < 0 THEN 0 - n ELSE n

RECURSIVE Gcd(_, _)
Gcd(a, b) == IF b = 0 THEN a ELSE Gcd(b, a % b)

Float(num, den) ==
    LET g == Gcd(Abs(num), Abs(den))
        s == IF den < 0 THEN 0 - 1 ELSE 1
    IN  [t |-> "float", neg |-> FALSE, mag |-> <<>>,
         num |-> (s * num) \div g, den |-> (s * den) \div g]

IsNumber(lit) == lit.t \in {"int", "float"}

\* float(a) of a number
FloatOf(lit) ==
    IF lit.t = "float" THEN lit
    ELSE Float((IF lit.neg THEN 0 - 1 ELSE 1) * MagToNat(lit.mag), 1)

\* int(a): truncation toward zero
IntOf(lit) ==
    IF lit.t = "int" THEN lit
    ELSE IF lit.num < 0 THEN I(0 - ((0 - lit.num) \div lit.den))
    ELSE I(lit.num \div lit.den)

FloatIsZero(f) == f.num = 0

\* a JSON literal that is not a number (a string, null): int() and float() raise
NotANumber == [t |-> "str", neg |-> FALSE, mag |-> <<>>, num |-> 0, den |-> 1]

\* Python's None as the result of an evaluation
None == [t |-> "none", neg |-> FALSE, mag |-> <<>>, num |-> 0, den |-> 1]

\* equality of literals as Python dictionary keys: 1 == 1.0
LitKey(lit) ==
    IF lit.t = "float" /\ lit.den = 1 THEN I(lit.num) ELSE lit

-----------------------------------------------------------------------------
(* O-IR building blocks.                                                   *)

IsValueId(s) == s # "" /\ Head(s) = "%"

\* an absent "bind"
NoBind == [has |-> FALSE, result |-> "", ty |-> ""]

Bind(rid, ty) == [has |-> TRUE, result |-> rid, ty |-> ty]

\* an absent Const "value" object
NoCValue == [ty |-> "", value |-> NotANumber]

\* every instruction carries every field; "" and <<>> stand for absent keys.
\* base is addr.base, cvalue the "value" object {ty, value} of a Const,
\* value the value operand of Store and HeapSet.
BlankInst ==
    [kind |-> "", op |-> "", bind |-> NoBind, binds |-> <<>>, callee |-> "",
     arg |-> "", lhs |-> "", rhs |-> "", cond |-> "", ifTrue |-> "",
     ifFalse |-> "", base |-> "", value |-> "", fields |-> <<>>, obj |-> "",
     args |-> <<>>, cvalue |-> NoCValue]

Const(rid, ty, lit) ==
    [BlankInst EXCEPT !.kind = "Const", !.bind = Bind(rid, ty),
                      !.cvalue = [ty |-> ty, value |-> lit]]

\* a Const whose value.ty differs from its bind.ty
ConstV(rid, bty, vty, lit) ==
    [BlankInst EXCEPT !.kind = "Const", !.bind = Bind(rid, bty),
                      !.cvalue = [ty |-> vty, value |-> lit]]

Unary(rid, ty, op, arg) ==
    [BlankInst EXCEPT !.kind = "Unary", !.op = op, !.bind = Bind(rid, ty),
                      !.arg = arg]

Binary(rid, ty, op, lhs, rhs) ==
    [BlankInst EXCEPT !.kind = "Binary", !.op = op, !.bind = Bind(rid, ty),
                      !.lhs = lhs, !.rhs = rhs]

SelectI(rid, ty, cond, ifTrue, ifFalse) ==
    [BlankInst EXCEPT !.kind = "Select", !.bind = Bind(rid, ty), !.cond = cond,
                      !.ifTrue = ifTrue, !.ifFalse = ifFalse]

Load(rid, ty, base) ==
    [BlankInst EXCEPT !.kind = "Load", !.bind = Bind(rid, ty), !.base = base]

Store(base, value) ==
    [BlankInst EXCEPT !.kind = "Store", !.base = base, !.value = value]

HeapNew(rid, ty, fields) ==
    [BlankInst EXCEPT !.kind = "HeapNew", !.bind = Bind(rid, ty),
                      !.fields = fields]

HeapGet(rid, ty, obj) ==
    [BlankInst EXCEPT !.kind = "HeapGet", !.bind = Bind(rid, ty), !.obj = obj]

HeapSet(obj, value) ==
    [BlankInst EXCEPT !.kind = "HeapSet", !.obj = obj, !.value = value]

TagOf(rid, ty, obj) ==
    [BlankInst EXCEPT !.kind = "TagOf", !.bind = Bind(rid, ty), !.obj = obj]

LenOf(rid, ty, obj) ==
    [BlankInst EXCEPT !.kind = "LenOf", !.bind = Bind(rid, ty), !.obj = obj]

Guard(cond) == [BlankInst EXCEPT !.kind = "Guard", !.cond = cond]

Call(callee, args, binds) ==
    [BlankInst EXCEPT !.kind = "Call", !.callee = callee, !.args = args,
                      !.binds = binds]

BlankTerm == [kind |-> "", values |-> <<>>, target |-> "", args |-> <<>>,
              on |-> "", cases |-> <<>>]

Return(values) == [BlankTerm EXCEPT !.kind = "Return", !.values = values]

Br(target, args) == [BlankTerm EXCEPT !.kind = "Br", !.target = target, !.args = args]

Switch(on, cases) == [BlankTerm EXCEPT !.kind = "Switch", !.on = on, !.cases = cases]

Trap == [BlankTerm EXCEPT !.kind = "Trap"]

Block(label, insts, term) == [label |-> label, insts |-> insts, term |-> term]

Param(name, ty) == [name |-> name, ty |-> ty]

\* an absent "attrs" object
NoAttrs == [has |-> FALSE, pure |-> FALSE]

Attrs(pure) == [has |-> TRUE, pure |-> pure]

\* linkage "" stands for an absent "linkage" key
Function(name, params, results, blocks, export, linkage) ==
    [name |-> name, params |-> params, results |-> results, blocks |-> blocks,
     export |-> export, linkage |-> linkage, attrs |-> NoAttrs]

NoCerts == [erasure |-> <<>>, dce |-> <<>>, guards |-> <<>>]

Doc(functions, tables, certs) ==
    [module |-> [functions |-> functions, tables |-> tables],
     certificates |-> certs]

Cert(symbol, kind) == [symbol |-> symbol, kind |-> kind]

\* sequence helpers
Range(s) == {s[i] : i \in DOMAIN s}

RECURSIVE SeqUnion(_)
SeqUnion(ss) == IF ss = <<>> THEN {} ELSE Head(ss) \cup SeqUnion(Tail(ss))

RECURSIVE Flatten(_)
Flatten(ss) == IF ss = <<>> THEN <<>> ELSE Head(ss) \o Flatten(Tail(ss))

-----------------------------------------------------------------------------
(* dce.py                                                                  *)

\* Optional[str] results are sets: {} is None, {rid} is the id rid.

\* a mutant of PURE_INSTRUCTION_KINDS: Load counted as pure
PURE_INSTRUCTION_KINDS_with_Load ==
    {"Const", "Unary", "Binary", "Select", "TagOf", "LenOf", "Load"}

PURE_INSTRUCTION_KINDS == {"Const", "Unary", "Binary", "Select", "TagOf", "LenOf"}

\* a mutant of _value_uses_in_inst: the rhs of a Binary is forgotten
_value_uses_in_inst_no_rhs(inst) ==
    LET k == inst.kind
        uses == CASE k = "Unary"   -> <<inst.arg>>
                  [] k = "Binary"  -> <<inst.lhs>>
                  [] k = "Select"  -> <<inst.cond, inst.ifTrue, inst.ifFalse>>
                  [] k = "Call"    -> inst.args
                  [] k = "Load"    -> <<inst.base>>
                  [] k = "Store"   -> <<inst.base, inst.value>>
                  [] k = "HeapNew" -> inst.fields
                  [] k = "HeapGet" -> <<inst.obj>>
                  [] k = "HeapSet" -> <<inst.obj, inst.value>>
                  [] k = "TagOf"   -> <<inst.obj>>
                  [] k = "LenOf"   -> <<inst.obj>>
                  [] k = "Guard"   -> <<inst.cond>>
                  [] OTHER         -> <<>>
    IN  SelectSeq(uses, IsValueId)

_value_uses_in_inst(inst) ==
    LET k == inst.kind
        uses == CASE k = "Const"   -> <<>>
                  [] k = "Unary"   -> <<inst.arg>>
                  [] k = "Binary"  -> <<inst.lhs, inst.rhs>>
                  [] k = "Select"  -> <<inst.cond, inst.ifTrue, inst.ifFalse>>
                  [] k = "Call"    -> inst.args
                  [] k = "Load"    -> <<inst.base>>
                  [] k = "Store"   -> <<inst.base, inst.value>>
                  [] k = "HeapNew" -> inst.fields
                  [] k = "HeapGet" -> <<inst.obj>>
                  [] k = "HeapSet" -> <<inst.obj, inst.value>>
                  [] k = "TagOf"   -> <<inst.obj>>
                  [] k = "LenOf"   -> <<inst.obj>>
                  [] k = "Guard"   -> <<inst.cond>>
                  [] OTHER         -> <<>>
    IN  SelectSeq(uses, IsValueId)

\* dce.py's _result_id: any string result of a "bind"; a Call's "binds" never count
_result_id_dce(inst) == IF inst.bind.has THEN {inst.bind.result} ELSE {}

_term_uses(term) ==
    LET k == term.kind
    IN  CASE k = "Return" -> SelectSeq(term.values, IsValueId)
          [] k = "Br"     -> SelectSeq(term.args, IsValueId)
          [] k = "Switch" ->
                SelectSeq(<<term.on>>, IsValueId)
                \o Flatten([i \in DOMAIN term.cases |->
                               SelectSeq(term.cases[i].args, IsValueId)])
          [] OTHER        -> <<>>

\* a mutant of _is_pure: no instruction counts as pure
_is_pure_never(inst) == FALSE

_is_pure(inst) == inst.kind \in PURE_INSTRUCTION_KINDS

_function_is_exported(fn) == fn.export

_function_linkage(fn) ==
    IF fn.linkage \notin {"internal", "external"} THEN "internal" ELSE fn.linkage

_collect_callees(fn) ==
    UNION {{fn.blocks[b].insts[i].callee :
               i \in {i \in DOMAIN fn.blocks[b].insts :
                          /\ fn.blocks[b].insts[i].kind = "Call"
                          /\ fn.blocks[b].insts[i].callee # ""}} :
           b \in DOMAIN fn.blocks}

_collect_table_refs(mod) ==
    {s \in UNION {Range(mod.tables[t].elems) : t \in DOMAIN mod.tables} : s # ""}

\* the call-graph fixed point of dce_functions (lines 224-236)
RECURSIVE CallClosure(_, _)
CallClosure(used, name_to_fn) ==
    LET more == {c \in UNION {_collect_callees(name_to_fn[n]) :
                                 n \in used \cap DOMAIN name_to_fn} :
                    c \notin used /\ c \in DOMAIN name_to_fn}
    IN  IF more = {} THEN used ELSE CallClosure(used \cup more, name_to_fn)

\* a mutant of UsedFunctions: callees of the seeds only, no fixed point
UsedFunctions_one_step(mod) ==
    LET fns  == mod.functions
        names == {fns[i].name : i \in DOMAIN fns}
        name_to_fn == [n \in names |->
                          fns[CHOOSE i \in DOMAIN fns :
                                  /\ fns[i].name = n
                                  /\ \A j \in DOMAIN fns : fns[j].name = n => j <= i]]
        seed == {n \in names : _function_is_exported(name_to_fn[n])}
                \cup _collect_table_refs(mod)
    IN  seed \cup {c \in UNION {_collect_callees(name_to_fn[n]) :
                                    n \in seed \cap names} : c \in names}

\* the "used" set of dce_functions (lines 218-236)
UsedFunctions(mod) ==
    LET fns  == mod.functions
        names == {fns[i].name : i \in DOMAIN fns}
        \* a dict comprehension: the last function of a name wins
        name_to_fn == [n \in names |->
                          fns[CHOOSE i \in DOMAIN fns :
                                  /\ fns[i].name = n
                                  /\ \A j \in DOMAIN fns : fns[j].name = n => j <= i]]
        seed == {n \in names : _function_is_exported(name_to_fn[n])}
                \cup _collect_table_refs(mod)
    IN  CallClosure(seed, name_to_fn)

\* the removal loop of dce_functions (lines 239-247)
RECURSIVE DropUnused(_, _, _, _)
DropUnused(fns, used, kept, certs_dce) ==
    IF fns = <<>> THEN [kept |-> kept, dce |-> certs_dce]
    ELSE LET fn == Head(fns)
         IN  IF /\ fn.name \notin used
                /\ _function_linkage(fn) = "internal"
                /\ ~_function_is_exported(fn)
             THEN DropUnused(Tail(fns), used, kept,
                             Append(certs_dce, Cert(fn.name, "function")))
             ELSE DropUnused(Tail(fns), used, Append(kept, fn), certs_dce)

\* returns the module and the certificates as dce_functions leaves them
dce_functions(mod, certs) ==
    LET r == DropUnused(mod.functions, UsedFunctions(mod), <<>>, certs.dce)
    IN  [mod   |-> [mod EXCEPT !.functions = r.kept],
         certs |-> [certs EXCEPT !.dce = r.dce]]

\* one iteration of the reverse scan of dce_instructions_in_function
\* (lines 274-298); st.temp is kept in block order
DceStep(st, inst, fn_name) ==
    LET rid == _result_id_dce(inst)
    IN  IF rid = {} \/ rid \subseteq st.live
        THEN [st EXCEPT !.temp = <<inst>> \o @,
                        !.live = @ \cup Range(_value_uses_in_inst(inst))]
        ELSE IF _is_pure(inst)
        THEN [st EXCEPT !.dce = Append(@, Cert(fn_name \o (CHOOSE r \in rid : TRUE),
                                               "binding"))]
        ELSE [st EXCEPT !.temp = <<inst>> \o @,
                        !.live = @ \cup Range(_value_uses_in_inst(inst))]

RECURSIVE DceReverseScan(_, _, _, _)
DceReverseScan(insts, i, st, fn_name) ==
    IF i = 0 THEN st
    ELSE DceReverseScan(insts, i - 1, DceStep(st, insts[i], fn_name), fn_name)

\* the body of the loop over the blocks (lines 264-302)
DceBlock(bb, live, certs_dce, fn_name) ==
    LET seeded == live \cup UNION {Range(_value_uses_in_inst(bb.insts[i])) :
                                     i \in DOMAIN bb.insts}
        r == DceReverseScan(bb.insts, Len(bb.insts),
                            [live |-> seeded, temp |-> <<>>, dce |-> certs_dce],
                            fn_name)
    IN  [bb |-> [bb EXCEPT !.insts = r.temp], live |-> r.live, dce |-> r.dce]

RECURSIVE DceBlocks(_, _, _, _, _)
DceBlocks(blocks, done, live, certs_dce, fn_name) ==
    IF blocks = <<>> THEN [blocks |-> done, dce |-> certs_dce]
    ELSE LET r == DceBlock(Head(blocks), live, certs_dce, fn_name)
         IN  DceBlocks(Tail(blocks), Append(done, r.bb), r.live, r.dce, fn_name)

dce_instructions_in_function(fn, certs) ==
    LET live == UNION {Range(_term_uses(fn.blocks[b].term)) : b \in DOMAIN fn.blocks}
        r == DceBlocks(fn.blocks, <<>>, live, certs.dce, fn.name)
    IN  [fn    |-> [fn EXCEPT !.blocks = r.blocks],
         certs |-> [certs EXCEPT !.dce = r.dce]]

RECURSIVE DceFunctions(_, _, _)
DceFunctions(fns, done, certs) ==
    IF fns = <<>> THEN [functions |-> done, certs |-> certs]
    ELSE LET r == dce_instructions_in_function(Head(fns), certs)
         IN  DceFunctions(Tail(fns), Append(done, r.fn), r.certs)

dce_instructions(mod, certs) ==
    LET r == DceFunctions(mod.functions, <<>>, certs)
    IN  [mod |-> [mod EXCEPT !.functions = r.functions], certs |-> r.certs]

run_dce(doc) ==
    LET a == dce_functions(doc.module, doc.certificates)
        b == dce_instructions(a.mod, a.certs)
    IN  [doc EXCEPT !.module = b.mod, !.certificates = b.certs]

-----------------------------------------------------------------------------
(* cse.py                                                                  *)

\* cse.py's and const_fold.py's _result_id: the result must start with "%"
_result_id(inst) ==
    IF inst.bind.has /\ IsValueId(inst.bind.result) THEN {inst.bind.result} ELSE {}

\* repl is a function from the replaced ids to their canonical ids
_rewrite_value(v, repl) == IF IsValueId(v) /\ v \in DOMAIN repl THEN repl[v] ELSE v

RewriteAll(vs, repl) == [i \in DOMAIN vs |-> _rewrite_value(vs[i], repl)]

_rewrite_inst_operands(inst, repl) ==
    LET k == inst.kind
    IN  CASE k = "Const"   -> inst
          [] k = "Unary"   -> [inst EXCEPT !.arg = _rewrite_value(@, repl)]
          [] k = "Binary"  -> [inst EXCEPT !.lhs = _rewrite_value(@, repl),
                                           !.rhs = _rewrite_value(@, repl)]
          [] k = "Select"  -> [inst EXCEPT !.cond = _rewrite_value(@, repl),
                                           !.ifTrue = _rewrite_value(@, repl),
                                           !.ifFalse = _rewrite_value(@, repl)]
          [] k = "Load"    -> [inst EXCEPT !.base = _rewrite_value(@, repl)]
          [] k = "Store"   -> [inst EXCEPT !.base = _rewrite_value(@, repl),
                                           !.value = _rewrite_value(@, repl)]
          [] k = "HeapNew" -> [inst EXCEPT !.fields = RewriteAll(@, repl)]
          [] k = "HeapGet" -> [inst EXCEPT !.obj = _rewrite_value(@, repl)]
          [] k = "HeapSet" -> [inst EXCEPT !.obj = _rewrite_value(@, repl),
                                           !.value = _rewrite_value(@, repl)]
          [] k = "TagOf"   -> [inst EXCEPT !.obj = _rewrite_value(@, repl)]
          [] k = "LenOf"   -> [inst EXCEPT !.obj = _rewrite_value(@, repl)]
          [] k = "Guard"   -> [inst EXCEPT !.cond = _rewrite_value(@, repl)]
          [] k = "Call"    -> [inst EXCEPT !.args = RewriteAll(@, repl)]
          [] OTHER         -> inst

\* a mutant of _rewrite_term: the terminator is left as it is
_rewrite_term_keep(term, repl) == term

_rewrite_term(term, repl) ==
    LET k == term.kind
    IN  CASE k = "Return" -> [term EXCEPT !.values = RewriteAll(@, repl)]
          [] k = "Br"     -> [term EXCEPT !.args = RewriteAll(@, repl)]
          [] k = "Switch" ->
                [term EXCEPT !.on = _rewrite_value(@, repl),
                             !.cases = [i \in DOMAIN @ |->
                                           [@[i] EXCEPT !.args = RewriteAll(@, repl)]]]
          [] OTHER        -> term

\* the key (type kind, literal) of a Const: value.ty, else bind.ty
_const_key(inst) ==
    LET kty == IF inst.cvalue.ty # "" THEN inst.cvalue.ty
               ELSE IF inst.bind.ty # "" THEN inst.bind.ty ELSE "None"
    IN  <<kty, LitKey(inst.cvalue.value)>>

\* a mutant of CseStep: a dropped duplicate also forgets the canonical id of
\* its key, so that the next Const with the key is kept as a new canonical
CseStep_forget_canonical(st, inst0, fn_name) ==
    LET inst == _rewrite_inst_operands(inst0, st.replace_map)
        key  == _const_key(inst)
        rid  == _result_id(inst)
    IN  IF inst.kind = "Const" /\ rid # {}
        THEN LET r == CHOOSE r \in rid : TRUE
             IN  IF key \in DOMAIN st.const_map
                 THEN [st EXCEPT
                         !.replace_map = [x \in DOMAIN @ \cup {r} |->
                                             IF x = r THEN st.const_map[key] ELSE @[x]],
                         !.const_map = [x \in DOMAIN @ \ {key} |-> @[x]],
                         !.dce = Append(@, Cert(fn_name \o r, "binding"))]
                 ELSE [st EXCEPT
                         !.const_map = [x \in DOMAIN @ \cup {key} |->
                                           IF x = key THEN r ELSE @[x]],
                         !.new_insts = Append(@, inst)]
        ELSE [st EXCEPT !.new_insts = Append(@, inst)]

\* one iteration of the loop of _run_cse_block (lines 166-188)
CseStep(st, inst0, fn_name) ==
    LET inst == _rewrite_inst_operands(inst0, st.replace_map)
        key  == _const_key(inst)
        rid  == _result_id(inst)
    IN  IF inst.kind = "Const" /\ rid # {}
        THEN LET r == CHOOSE r \in rid : TRUE
             IN  IF key \in DOMAIN st.const_map
                 THEN [st EXCEPT
                         !.replace_map = [x \in DOMAIN @ \cup {r} |->
                                             IF x = r THEN st.const_map[key] ELSE @[x]],
                         !.dce = Append(@, Cert(fn_name \o r, "binding"))]
                 ELSE [st EXCEPT
                         !.const_map = [x \in DOMAIN @ \cup {key} |->
                                           IF x = key THEN r ELSE @[x]],
                         !.new_insts = Append(@, inst)]
        ELSE [st EXCEPT !.new_insts = Append(@, inst)]

RECURSIVE CseScan(_, _, _)
CseScan(insts, st, fn_name) ==
    IF insts = <<>> THEN st
    ELSE CseScan(Tail(insts), CseStep(st, Head(insts), fn_name), fn_name)

EmptyMap == [x \in {} |-> x]

\* returns the block and certificates.dce as _run_cse_block leaves them
_run_cse_block(fn, bb, certs_dce) ==
    LET r == CseScan(bb.insts,
                     [const_map |-> EmptyMap, replace_map |-> EmptyMap,
                      new_insts |-> <<>>, dce |-> certs_dce],
                     fn.name)
    IN  [bb  |-> [bb EXCEPT !.insts = r.new_insts,
                            !.term = _rewrite_term(@, r.replace_map)],
         dce |-> r.dce]

RECURSIVE CseBlocks(_, _, _, _)
CseBlocks(fn, blocks, done, certs_dce) ==
    IF blocks = <<>> THEN [blocks |-> done, dce |-> certs_dce]
    ELSE LET r == _run_cse_block(fn, Head(blocks), certs_dce)
         IN  CseBlocks(fn, Tail(blocks), Append(done, r.bb), r.dce)

RECURSIVE CseFunctions(_, _, _)
CseFunctions(fns, done, certs_dce) ==
    IF fns = <<>> THEN [functions |-> done, dce |-> certs_dce]
    ELSE LET r == CseBlocks(Head(fns), Head(fns).blocks, <<>>, certs_dce)
         IN  CseFunctions(Tail(fns),
                          Append(done, [Head(fns) EXCEPT !.blocks = r.blocks]),
                          r.dce)

\* a mutant of run_cse: the pass collects its certificates in a fresh list
\* and stores that list
run_cse_fresh_list(doc) ==
    LET r == CseFunctions(doc.module.functions, <<>>, <<>>)
    IN  [doc EXCEPT !.module.functions = r.functions, !.certificates.dce = r.dce]

run_cse(doc) ==
    LET r == CseFunctions(doc.module.functions, <<>>, doc.certificates.dce)
    IN  [doc EXCEPT !.module.functions = r.functions, !.certificates.dce = r.dce]

-----------------------------------------------------------------------------
(* const_fold.py                                                           *)

\* "" stands for None
_bind_type_kind(inst) == IF inst.bind.has THEN inst.bind.ty ELSE ""

\* {} is None, {<<kind, literal>>} the constant of a Const
_const_val(inst) ==
    IF inst.kind # "Const" THEN {}
    ELSE LET k == IF inst.cvalue.ty # "" THEN inst.cvalue.ty ELSE _bind_type_kind(inst)
         IN  IF k # "" THEN {<<k, inst.cvalue.value>>} ELSE {}

\* ~n = -n - 1
BigNot(a) == BigSub(BigNeg(a), I(1))

FloatAbs(f) == Float(Abs(f.num), f.den)
FloatAdd(a, b) == Float(a.num * b.den + b.num * a.den, a.den * b.den)
FloatSub(a, b) == Float(a.num * b.den - b.num * a.den, a.den * b.den)
FloatMul(a, b) == Float(a.num * b.num, a.den * b.den)
FloatDiv(a, b) == Float(a.num * b.den, a.den * b.num)

\* a mutant of _eval_unary: the negation is computed as the complement
_eval_unary_neg_as_not(op, kty, a) ==
    IF ~IsNumber(a) THEN None
    ELSE CASE op = "neg_i32" /\ kty = "i32" -> BigNot(IntOf(a))
           [] op = "neg_i64" /\ kty = "i64" -> BigNot(IntOf(a))
           [] op = "not_i32" /\ kty = "i32" -> BigAnd(BigNot(IntOf(a)), MASK32)
           [] op = "not_i64" /\ kty = "i64" -> BigAnd(BigNot(IntOf(a)), MASK64)
           [] op = "abs_f32" /\ kty = "f32" -> FloatAbs(FloatOf(a))
           [] op = "abs_f64" /\ kty = "f64" -> FloatAbs(FloatOf(a))
           [] OTHER -> None

\* None is returned also when int() or float() raises
_eval_unary(op, kty, a) ==
    IF ~IsNumber(a) THEN None
    ELSE CASE op = "neg_i32" /\ kty = "i32" -> BigNeg(IntOf(a))
           [] op = "neg_i64" /\ kty = "i64" -> BigNeg(IntOf(a))
           [] op = "not_i32" /\ kty = "i32" -> BigAnd(BigNot(IntOf(a)), MASK32)
           [] op = "not_i64" /\ kty = "i64" -> BigAnd(BigNot(IntOf(a)), MASK64)
           [] op = "abs_f32" /\ kty = "f32" -> FloatAbs(FloatOf(a))
           [] op = "abs_f64" /\ kty = "f64" -> FloatAbs(FloatOf(a))
           [] OTHER -> None

\* a mutant of _eval_binary: the i32 results are not masked
_eval_binary_no_mask32(op, kty, a, b) ==
    IF ~IsNumber(a) \/ ~IsNumber(b) THEN None
    ELSE IF kty \in {"i32", "i64"}
    THEN LET ai == IntOf(a)
             bi == IntOf(b)
         IN  CASE op = "add_i32" /\ kty = "i32" -> BigAdd(ai, bi)
               [] op = "sub_i32" /\ kty = "i32" -> BigSub(ai, bi)
               [] op = "mul_i32" /\ kty = "i32" -> BigMul(ai, bi)
               [] op = "add_i64" /\ kty = "i64" -> BigAnd(BigAdd(ai, bi), MASK64)
               [] op = "sub_i64" /\ kty = "i64" -> BigAnd(BigSub(ai, bi), MASK64)
               [] op = "mul_i64" /\ kty = "i64" -> BigAnd(BigMul(ai, bi), MASK64)
               [] OTHER -> None
    ELSE None

\* a mutant of _eval_binary: no test of a zero divisor; x / 0 is folded to
\* the infinity that IEEE division gives, written as the literal 1/0
_eval_binary_div_by_zero(op, kty, a, b) ==
    IF ~IsNumber(a) \/ ~IsNumber(b) THEN None
    ELSE IF kty \in {"f32", "f64"}
    THEN LET af == FloatOf(a)
             bf == FloatOf(b)
             q  == IF FloatIsZero(bf)
                   THEN [t |-> "float", neg |-> FALSE, mag |-> <<>>, num |-> 1, den |-> 0]
                   ELSE FloatDiv(af, bf)
         IN  CASE op = "add_f32" /\ kty = "f32" -> FloatAdd(af, bf)
               [] op = "sub_f32" /\ kty = "f32" -> FloatSub(af, bf)
               [] op = "mul_f32" /\ kty = "f32" -> FloatMul(af, bf)
               [] op = "div_f32" /\ kty = "f32" -> q
               [] op = "add_f64" /\ kty = "f64" -> FloatAdd(af, bf)
               [] op = "sub_f64" /\ kty = "f64" -> FloatSub(af, bf)
               [] op = "mul_f64" /\ kty = "f64" -> FloatMul(af, bf)
               [] op = "div_f64" /\ kty = "f64" -> q
               [] OTHER -> None
    ELSE None

_eval_binary(op, kty, a, b) ==
    IF ~IsNumber(a) \/ ~IsNumber(b) THEN None
    ELSE IF kty \in {"i32", "i64"}
    THEN LET ai == IntOf(a)
             bi == IntOf(b)
         IN  CASE op = "add_i32" /\ kty = "i32" -> BigAnd(BigAdd(ai, bi), MASK32)
               [] op = "sub_i32" /\ kty = "i32" -> BigAnd(BigSub(ai, bi), MASK32)
               [] op = "mul_i32" /\ kty = "i32" -> BigAnd(BigMul(ai, bi), MASK32)
               [] op = "add_i64" /\ kty = "i64" -> BigAnd(BigAdd(ai, bi), MASK64)
               [] op = "sub_i64" /\ kty = "i64" -> BigAnd(BigSub(ai, bi), MASK64)
               [] op = "mul_i64" /\ kty = "i64" -> BigAnd(BigMul(ai, bi), MASK64)
               [] OTHER -> None
    ELSE IF kty \in {"f32", "f64"}
    THEN LET af == FloatOf(a)
             bf == FloatOf(b)
         IN  CASE op = "add_f32" /\ kty = "f32" -> FloatAdd(af, bf)
               [] op = "sub_f32" /\ kty = "f32" -> FloatSub(af, bf)
               [] op = "mul_f32" /\ kty = "f32" -> FloatMul(af, bf)
               [] op = "div_f32" /\ kty = "f32" ->
                     IF FloatIsZero(bf) THEN None ELSE FloatDiv(af, bf)
               [] op = "add_f64" /\ kty = "f64" -> FloatAdd(af, bf)
               [] op = "sub_f64" /\ kty = "f64" -> FloatSub(af, bf)
               [] op = "mul_f64" /\ kty = "f64" -> FloatMul(af, bf)
               [] op = "div_f64" /\ kty = "f64" ->
                     IF FloatIsZero(bf) THEN None ELSE FloatDiv(af, bf)
               [] OTHER -> None
    ELSE None

\* the Const that replaces a folded instruction (lines 180-187, 205-212)
Folded(inst, kty, res) ==
    [BlankInst EXCEPT !.kind = "Const", !.bind = inst.bind,
                      !.cvalue = [ty |-> kty, value |-> res]]

EnvPut(env, rid, cv) == [x \in DOMAIN env \cup {rid} |-> IF x = rid THEN cv ELSE env[x]]

\* one iteration of the loop of _fold_block (lines 157-220)
FoldStep(st, inst) ==
    LET k   == inst.kind
        rid == _result_id(inst)
        kty == _bind_type_kind(inst)
        env == st.const_env
        keep == [st EXCEPT !.new_insts = Append(@, inst)]
    IN  IF k = "Const"
        THEN IF rid # {} /\ _const_val(inst) # {}
             THEN [keep EXCEPT !.const_env =
                      EnvPut(@, CHOOSE r \in rid : TRUE,
                                CHOOSE cv \in _const_val(inst) : TRUE)]
             ELSE keep
        ELSE IF k = "Unary"
        THEN IF rid # {} /\ kty # "" /\ IsValueId(inst.arg) /\ inst.arg \in DOMAIN env
             THEN LET res == _eval_unary(inst.op, kty, env[inst.arg][2])
                  IN  IF res # None
                      THEN [st EXCEPT
                              !.new_insts = Append(@, Folded(inst, kty, res)),
                              !.const_env = EnvPut(@, CHOOSE r \in rid : TRUE,
                                                      <<kty, res>>)]
                      ELSE keep
             ELSE keep
        ELSE IF k = "Binary"
        THEN IF /\ rid # {} /\ kty # ""
                /\ IsValueId(inst.lhs) /\ IsValueId(inst.rhs)
                /\ inst.lhs \in DOMAIN env /\ inst.rhs \in DOMAIN env
             THEN LET res == _eval_binary(inst.op, kty, env[inst.lhs][2],
                                          env[inst.rhs][2])
                  IN  IF res # None
                      THEN [st EXCEPT
                              !.new_insts = Append(@, Folded(inst, kty, res)),
                              !.const_env = EnvPut(@, CHOOSE r \in rid : TRUE,
                                                      <<kty, res>>)]
                      ELSE keep
             ELSE keep
        ELSE keep

RECURSIVE FoldScan(_, _)
FoldScan(insts, st) ==
    IF insts = <<>> THEN st ELSE FoldScan(Tail(insts), FoldStep(st, Head(insts)))

\* the state of _fold_block when its loop ends: new_insts and const_env
FoldBlockState(bb) == FoldScan(bb.insts, [const_env |-> EmptyMap, new_insts |-> <<>>])

_fold_block(bb) == [bb EXCEPT !.insts = FoldBlockState(bb).new_insts]

run_const_fold(doc) ==
    [doc EXCEPT !.module.functions =
        [f \in DOMAIN @ |->
            [@[f] EXCEPT !.blocks = [b \in DOMAIN @ |-> _fold_block(@[b])]]]]

-----------------------------------------------------------------------------
(* Model bounds and input families.                                        *)

\* the number of operations applied to one document
MaxOps == 2

NoTir == [module |-> [name |-> "", decls |-> <<>>]]

\* the PassReport of a lowerer; dceShared tells that report.dce and the
\* certificates.dce of the document are one and the same list object
NoReport ==
    [erasure |-> <<>>, dce |-> <<>>, guards |-> <<>>, notes |-> <<>>,
     dceShared |-> FALSE]

\* no text generated yet; status is "ok" with the text, or "error" with the
\* exception class and message raised
NoWat == [status |-> "none", text |-> "", exc |-> "", msg |-> ""]

NoDoc == Doc(<<>>, <<>>, NoCerts)

\* the parsed command line of a driver
Args(const_fold, cse, dce, validate_oir, oir_out) ==
    [const_fold |-> const_fold, cse |-> cse, dce |-> dce,
     validate_oir |-> validate_oir, oir_out |-> oir_out]

\* no driver is running: the operations are called as library functions
NoDriver ==
    [tool |-> "", args |-> Args(FALSE, FALSE, FALSE, FALSE, FALSE),
     input |-> "", valid_in |-> TRUE, valid_out |-> TRUE, fault |-> "",
     pc |-> "", code |-> -1, files |-> {}, trace |-> <<>>]

\* no earlier lower() call was made on the lowerer instance. dceShared
\* tells that certificates.dce of the earlier module is the list object
\* report.dce
NoFirst == [tir |-> NoTir, doc |-> NoDoc, dceShared |-> FALSE]

\* an optional instruction: a set of one-element or empty sequences
Opt(S) == {<<>>} \cup {<<i>> : i \in S}

\* the callee of the liveness family: internal, not exported, effectful body
CalleeG ==
    Function("g", <<Param("p", "i32")>>, <<>>,
             <<Block("entry",
                     <<Const("%a", "i32", I(1)), Store("%p", "%a"),
                       Const("%b", "i32", I(1))>>,
                     Return(<<>>))>>,
             FALSE, "internal")

\* first, second and third instruction of the entry block of f
DceSlot1 ==
    Opt({Const("%a", "i32", I(1)),
         Const("%x", "i32", I(1)),
         Load("%a", "i32", "%x"),
         Call("g", <<"%x">>, <<Bind("%a", "i32")>>),
         HeapNew("%a", "i32", <<"%x">>)})

DceSlot2 ==
    Opt({Const("%b", "i32", I(1)),
         Const("%a", "i32", I(2)),
         Unary("%b", "i32", "neg_i32", "%a"),
         Load("%b", "i32", "%a"),
         Store("%x", "%a"),
         Guard("%a"),
         TagOf("%b", "i32", "%a")})

DceSlot3 ==
    Opt({Binary("%c", "i32", "add_i32", "%a", "%b"),
         Binary("%c", "i32", "add_i32", "%x", "%b"),
         SelectI("%c", "i32", "%x", "%a", "%b"),
         HeapSet("%a", "%b"),
         HeapGet("%c", "i32", "%b"),
         Call("g", <<"%b">>, <<>>),
         LenOf("%c", "i32", "%b")})

DceTerm1 ==
    {Return(<<>>), Return(<<"%c">>), Return(<<"%b">>), Br("next", <<"%a">>),
     Switch("%c", <<[args |-> <<"%b">>]>>)}

\* the optional second block of f
DceBlock2 ==
    Opt({Block("next", <<Unary("%d", "i32", "neg_i32", "%x")>>, Return(<<"%d">>)),
         Block("next", <<Unary("%d", "i32", "neg_i32", "%a")>>, Return(<<"%d">>)),
         Block("next", <<Const("%d", "i32", I(1))>>, Trap)})

InitDce ==
    /\ \E s1 \in DceSlot1, s2 \in DceSlot2, s3 \in DceSlot3,
          t \in DceTerm1, b2 \in DceBlock2 :
          oir = Doc(<<Function("f", <<Param("x", "i32")>>, <<"i32">>,
                               <<Block("entry", s1 \o s2 \o s3, t)>> \o b2,
                               TRUE, "internal"),
                      CalleeG>>,
                    <<>>, NoCerts)
    /\ orig = oir
    /\ prev = oir
    /\ hist = <<>>
    /\ tir = NoTir
    /\ report = NoReport
    /\ wat = NoWat
    /\ first = NoFirst
    /\ drv = NoDriver

-----------------------------------------------------------------------------
(* Operations.                                                             *)

\* run_dce appends to certificates.dce in place: a lowerer whose report.dce
\* is that list sees the appended certificates
ReportAfterDce(rep, doc1) ==
    IF rep.dceShared THEN [rep EXCEPT !.dce = doc1.certificates.dce] ELSE rep

\* run_cse appends in place to a non-empty certificates.dce, and replaces
\* an empty one by a new list (certs.get("dce") or [])
ReportAfterCse(rep, doc0, doc1) ==
    IF ~rep.dceShared THEN rep
    ELSE IF doc0.certificates.dce = <<>> THEN [rep EXCEPT !.dceShared = FALSE]
    ELSE [rep EXCEPT !.dce = doc1.certificates.dce]

RunConstFold ==
    /\ Len(hist) < MaxOps
    /\ oir # NoDoc
    /\ wat.status = "none"
    /\ oir' = run_const_fold(oir)
    /\ prev' = oir
    /\ hist' = Append(hist, "const_fold")
    /\ UNCHANGED <<orig, tir, report, wat, drv, first>>

RunCse ==
    /\ Len(hist) < MaxOps
    /\ oir # NoDoc
    /\ wat.status = "none"
    /\ oir' = run_cse(oir)
    /\ prev' = oir
    /\ hist' = Append(hist, "cse")
    /\ report' = ReportAfterCse(report, oir, oir')
    /\ UNCHANGED <<orig, tir, wat, drv, first>>

RunDce ==
    /\ Len(hist) < MaxOps
    /\ oir # NoDoc
    /\ wat.status = "none"
    /\ oir' = run_dce(oir)
    /\ prev' = oir
    /\ hist' = Append(hist, "dce")
    /\ report' = ReportAfterDce(report, oir')
    /\ UNCHANGED <<orig, tir, wat, drv, first>>

NextOpt == RunConstFold \/ RunCse \/ RunDce

SpecDce == InitDce /\ [][NextOpt]_vars

Last == IF hist = <<>> THEN "none" ELSE hist[Len(hist)]

\* the certificates.dce entries the last operation appended
NewDceCerts ==
    SubSeq(oir.certificates.dce, Len(prev.certificates.dce) + 1,
           Len(oir.certificates.dce))

-----------------------------------------------------------------------------
(* Vocabulary of the properties.                                           *)

\* every operand position of an instruction, whatever its kind
Operands(inst) ==
    ({inst.arg, inst.lhs, inst.rhs, inst.cond, inst.ifTrue, inst.ifFalse,
      inst.base, inst.value, inst.obj}
     \cup Range(inst.fields) \cup Range(inst.args)) \ {""}

TermOperands(term) ==
    (Range(term.values) \cup Range(term.args) \cup {term.on}
     \cup UNION {Range(term.cases[c].args) : c \in DOMAIN term.cases}) \ {""}

\* the result ids an instruction binds, through "bind" or a Call's "binds"
Results(inst) ==
    (IF inst.bind.has THEN <<inst.bind.result>> ELSE <<>>)
    \o [i \in DOMAIN inst.binds |-> inst.binds[i].result]

BlockResults(bb) == Flatten([i \in DOMAIN bb.insts |-> Results(bb.insts[i])])

FnResults(fn) == Flatten([b \in DOMAIN fn.blocks |-> BlockResults(fn.blocks[b])])

ParamIds(fn) == {"%" \o fn.params[p].name : p \in DOMAIN fn.params}

FnOperands(fn) ==
    UNION {UNION {Operands(fn.blocks[b].insts[i]) : i \in DOMAIN fn.blocks[b].insts}
           \cup TermOperands(fn.blocks[b].term) : b \in DOMAIN fn.blocks}

NoDuplicates(s) == \A i, j \in DOMAIN s : s[i] = s[j] => i = j

\* the data-model invariants of a function: result ids unique per function,
\* every operand names a parameter or a result bound earlier in its block
WellFormedFn(fn) ==
    /\ NoDuplicates(FnResults(fn))
    /\ \A b \in DOMAIN fn.blocks :
          LET bb == fn.blocks[b]
          IN  /\ \A i \in DOMAIN bb.insts :
                    Operands(bb.insts[i]) \subseteq
                        ParamIds(fn)
                        \cup Range(BlockResults([bb EXCEPT !.insts = SubSeq(@, 1, i - 1)]))
              /\ TermOperands(bb.term) \subseteq
                    ParamIds(fn) \cup Range(BlockResults(bb))

WellFormed(doc) ==
    /\ NoDuplicates([f \in DOMAIN doc.module.functions |-> doc.module.functions[f].name])
    /\ \A f \in DOMAIN doc.module.functions : WellFormedFn(doc.module.functions[f])

\* no result id is the value id of a parameter of its function
ResultsApartFromParams(doc) ==
    \A f \in DOMAIN doc.module.functions :
        Range(FnResults(doc.module.functions[f]))
            \cap ParamIds(doc.module.functions[f]) = {}

Functions(doc) == Range(doc.module.functions)

\* rid is certified as a removed binding of fn by the last operation
CertifiedDead(fn, rid) == Cert(fn.name \o rid, "binding") \in Range(NewDceCerts)

\* every binding certified by the last operation is used nowhere in what is
\* left of its function
CertifiedBindingsUnused ==
    \A fn \in Functions(prev) : \A rid \in Range(FnResults(fn)) :
        CertifiedDead(fn, rid) =>
            \A g \in Functions(oir) : g.name = fn.name => rid \notin FnOperands(g)

-----------------------------------------------------------------------------
(* Properties.                                                             *)

\* C1 as stated: after run_dce on a module that satisfies the data-model
\* invariants (result ids unique per function, operands name a parameter or
\* a result bound earlier in the same block), a value id named by a
\* "binding" certificate of that run is an operand of no instruction and of
\* no terminator left in its function.
C1_DceSoundAsStated ==
    (Last = "dce" /\ WellFormed(prev)) => CertifiedBindingsUnused

\* C1 amended: the same, for modules in which moreover no result id is the
\* value id "%p" of a parameter p of its function.
C1_DceSound ==
    (Last = "dce" /\ WellFormed(prev) /\ ResultsApartFromParams(prev))
        => CertifiedBindingsUnused

\* a run of DCE on a well-formed module that certified a dead binding of a
\* function and left instructions in that function
C1_Witness ==
    /\ Last = "dce" /\ WellFormed(prev) /\ ResultsApartFromParams(prev)
    /\ \E fn \in Functions(prev) : \E rid \in Range(FnResults(fn)) :
          /\ CertifiedDead(fn, rid)
          /\ \E g \in Functions(oir) :
                g.name = fn.name /\ \E b \in DOMAIN g.blocks : g.blocks[b].insts # <<>>

-----------------------------------------------------------------------------
(* The call-graph family: three functions f, g, h, each with at most one   *)
(* direct Call, and at most one table.                                     *)

CgBody(callee) ==
    <<Block("entry",
            IF callee = "" THEN <<>> ELSE <<Call(callee, <<>>, <<>>)>>,
            Return(<<>>))>>

CgTables == {<<>>, <<[elems |-> <<"g">>]>>, <<[elems |-> <<"h", "nofn">>]>>}

InitCG ==
    /\ \E ef, eg, eh \in BOOLEAN,
          lg \in {"internal", "external"}, lh \in {"internal", ""},
          cf \in {"", "g", "h"}, cg \in {"", "f", "h", "ext"}, ch \in {"", "g", "h"},
          tb \in CgTables :
          oir = Doc(<<Function("f", <<>>, <<>>, CgBody(cf), ef, "internal"),
                      Function("g", <<>>, <<>>, CgBody(cg), eg, lg),
                      Function("h", <<>>, <<>>, CgBody(ch), eh, lh)>>,
                    tb, NoCerts)
    /\ orig = oir
    /\ prev = oir
    /\ hist = <<>>
    /\ tir = NoTir
    /\ report = NoReport
    /\ wat = NoWat
    /\ first = NoFirst
    /\ drv = NoDriver

SpecCG == InitCG /\ [][NextOpt]_vars

FnNames(doc) == {fn.name : fn \in Functions(doc)}

\* the direct Call edges between functions defined in the module
CallEdges(doc) ==
    {e \in FnNames(doc) \X FnNames(doc) :
        \E fn \in Functions(doc) :
            /\ fn.name = e[1]
            /\ \E b \in DOMAIN fn.blocks : \E i \in DOMAIN fn.blocks[b].insts :
                  /\ fn.blocks[b].insts[i].kind = "Call"
                  /\ fn.blocks[b].insts[i].callee = e[2]}

Roots(doc) ==
    {fn.name : fn \in {g \in Functions(doc) : g.export}}
    \cup UNION {Range(doc.module.tables[t].elems) : t \in DOMAIN doc.module.tables}

RECURSIVE ReachSteps(_, _, _)
ReachSteps(doc, S, n) ==
    IF n = 0 THEN S
    ELSE ReachSteps(doc, S \cup {e[2] : e \in {d \in CallEdges(doc) : d[1] \in S}}, n - 1)

\* the least set with the roots that is closed under the Call edges
Reachable(doc) == ReachSteps(doc, Roots(doc), Cardinality(FnNames(doc)))

Removable(doc, fn) ==
    /\ fn.name \notin Reachable(doc)
    /\ fn.linkage \in {"internal", ""}
    /\ ~fn.export

CountCerts(certs, c) == Cardinality({i \in DOMAIN certs : certs[i] = c})

\* C2: function-level DCE on a module with unique function names keeps every
\* function reachable from an exported function or a table element over
\* direct Calls, removes every unreachable internal (or linkage-less),
\* non-exported function with exactly one "function" certificate, and
\* removes no other function.
C2_CallGraphClosure ==
    (Last = "dce" /\ NoDuplicates([f \in DOMAIN prev.module.functions |->
                                       prev.module.functions[f].name]))
    => \A fn \in Functions(prev) :
          IF Removable(prev, fn)
          THEN /\ fn.name \notin FnNames(oir)
               /\ CountCerts(NewDceCerts, Cert(fn.name, "function")) = 1
          ELSE /\ fn.name \in FnNames(oir)
               /\ CountCerts(NewDceCerts, Cert(fn.name, "function")) = 0

\* a run of DCE that kept a function reachable only through a Call and
\* removed an unreachable one
C2_Witness ==
    /\ Last = "dce"
    /\ \E fn \in Functions(prev) :
          /\ fn.name \in Reachable(prev) \ Roots(prev)
          /\ fn.name \in FnNames(oir)
    /\ \E fn \in Functions(prev) : Removable(prev, fn) /\ fn.name \notin FnNames(oir)


DroppableKinds == {"Const", "Unary", "Binary", "Select", "TagOf", "LenOf"}

EffectfulKinds == {"Load", "Store", "Call", "HeapNew", "HeapGet", "HeapSet", "Guard"}

\* the effectful instructions of a block, in order: kind and bound ids
EffectfulTrace(bb) ==
    LET eff == SelectSeq(bb.insts, LAMBDA inst : inst.kind \in EffectfulKinds)
    IN  [i \in DOMAIN eff |-> <<eff[i].kind, Results(eff[i])>>]

\* the kinds of the instructions of a block that are not in the set K
KindsOutside(bb, K) ==
    LET rest == SelectSeq(bb.insts, LAMBDA inst : inst.kind \notin K)
    IN  [i \in DOMAIN rest |-> rest[i].kind]

\* C3: whatever passes have run, each block of each surviving function has
\* the effectful instructions (Load, Store, Call, HeapNew, HeapGet, HeapSet,
\* Guard) of the input, with the same kinds, bind ids and order, used or
\* not; only Const, Unary, Binary, Select, TagOf, LenOf are dropped.
C3_EffectfulKept ==
    \A fn \in Functions(oir) : \A fo \in Functions(orig) :
        fn.name = fo.name =>
            /\ DOMAIN fn.blocks = DOMAIN fo.blocks
            /\ \A b \in DOMAIN fn.blocks :
                  /\ EffectfulTrace(fn.blocks[b]) = EffectfulTrace(fo.blocks[b])
                  /\ KindsOutside(fn.blocks[b], DroppableKinds)
                        = KindsOutside(fo.blocks[b], DroppableKinds)

\* DCE has run and dropped a binding of a function that keeps an effectful
\* instruction whose result nothing uses
C3_Witness ==
    /\ Last = "dce"
    /\ \E fn \in Functions(oir) :
          /\ \E b \in DOMAIN fn.blocks : \E i \in DOMAIN fn.blocks[b].insts :
                LET inst == fn.blocks[b].insts[i]
                IN  /\ inst.kind \in EffectfulKinds
                    /\ inst.bind.has
                    /\ inst.bind.result \notin FnOperands(fn)
          /\ \E fo \in Functions(prev) : \E rid \in Range(FnResults(fo)) :
                fo.name = fn.name /\ CertifiedDead(fo, rid)

-----------------------------------------------------------------------------
(* The constants family: a function whose entry block binds up to three    *)
(* Consts with equal or different (type, literal) keys and then uses them; *)
(* the document comes with certificates of earlier stages.                 *)

CseConsts(rid) ==
    {Const(rid, "i32", I(1)), Const(rid, "i32", I(2)), Const(rid, "i64", I(1)),
     Const(rid, "i32", Float(1, 1)), ConstV(rid, "i32", "", I(1))}

CseUsers ==
    {Binary("%d", "i32", "add_i32", "%a", "%b"),
     Binary("%d", "i32", "mul_i32", "%b", "%c"),
     Store("%b", "%c"),
     Call("g", <<"%a", "%c">>, <<Bind("%d", "i32")>>),
     Const("%a", "i32", I(1))}

CseTerms ==
    {Return(<<"%c">>), Return(<<"%b">>), Br("next", <<"%c", "%d">>),
     Switch("%b", <<[args |-> <<"%c">>]>>)}

CseNext ==
    Block("next",
          <<Const("%e", "i32", I(1)), Const("%g", "i32", I(1)),
            HeapNew("%h", "i32", <<"%e", "%g">>)>>,
          Return(<<"%g">>))

EarlierCerts ==
    [erasure |-> <<[symbol |-> "lemma", reason |-> "proof-irrelevant"]>>,
     dce     |-> <<Cert("old", "function"), Cert("f%z", "binding")>>,
     guards  |-> <<>>]

InitCse ==
    /\ \E s1 \in Opt(CseConsts("%a")), s2 \in Opt(CseConsts("%b")),
          s3 \in Opt(CseConsts("%c") \cup {Unary("%c", "i32", "neg_i32", "%b")}),
          s4 \in Opt(CseUsers), t \in CseTerms :
          oir = Doc(<<Function("f", <<Param("x", "i32")>>, <<"i32">>,
                               <<Block("entry", s1 \o s2 \o s3 \o s4, t), CseNext>>,
                               TRUE, "internal")>>,
                    <<>>, EarlierCerts)
    /\ orig = oir
    /\ prev = oir
    /\ hist = <<>>
    /\ tir = NoTir
    /\ report = NoReport
    /\ wat = NoWat
    /\ first = NoFirst
    /\ drv = NoDriver

SpecCse == InitCse /\ [][NextOpt]_vars

\* C4: run_cse on the result of run_cse changes nothing: no instruction is
\* dropped, no operand or terminator value rewritten, no certificate
\* appended.
C4_CseIdempotent ==
    (Len(hist) >= 2 /\ hist[Len(hist)] = "cse" /\ hist[Len(hist) - 1] = "cse")
        => oir = prev

\* two runs of CSE in a row, the first of which dropped a duplicate Const
\* and rewrote a use of it
C4_Witness ==
    /\ hist = <<"cse", "cse">>
    /\ Len(oir.certificates.dce) > Len(orig.certificates.dce)
    /\ \E fn \in Functions(oir) : \E fo \in Functions(orig) :
          fn.name = fo.name /\ FnOperands(fn) # FnOperands(fo)

IsPrefix(s, t) == Len(s) <= Len(t) /\ SubSeq(t, 1, Len(s)) = s

\* C10: each pass leaves every certificate list with the list from before
\* the pass as a prefix: no entry is removed, reordered or modified.
C10_CertsAppendOnly ==
    /\ IsPrefix(prev.certificates.erasure, oir.certificates.erasure)
    /\ IsPrefix(prev.certificates.dce, oir.certificates.dce)
    /\ IsPrefix(prev.certificates.guards, oir.certificates.guards)

\* a pass has appended to a certificate list that was not empty
C10_Witness ==
    /\ hist # <<>>
    /\ prev.certificates.dce # <<>>
    /\ Len(oir.certificates.dce) > Len(prev.certificates.dce)
    /\ Len(prev.certificates.dce) > Len(orig.certificates.dce)

-----------------------------------------------------------------------------
(* The integer folding family: two Consts, a Binary over them with an      *)
(* integer bind type, and optionally an instruction that uses its result.  *)

TwoPow32 == BigInt(FALSE, <<0, 0, 0, 0, 1>>)

FoldIntA ==
    {Const("%a", "i32", I(2)), Const("%a", "i32", MASK32),
     Const("%a", "i32", I(0 - 1)), Const("%a", "i64", MASK64),
     Const("%a", "i64", BigAdd(TwoPow32, I(7))), Const("%a", "f32", Float(5, 2))}

FoldIntB ==
    {Const("%b", "i32", I(3)), Const("%b", "i32", I(1)), Const("%b", "i64", MASK64),
     Const("%b", "i32", BigInt(FALSE, <<0, 0, 1>>)), Const("%b", "i32", NotANumber)}

FoldIntOps == {"add_i32", "sub_i32", "mul_i32", "add_i64", "sub_i64", "mul_i64", "and_i32"}

FoldOperands == {<<"%a", "%b">>, <<"%b", "%a">>, <<"%a", "%a">>, <<"%a", "%x">>}

FoldIntUsers ==
    {Binary("%d", "i32", "add_i32", "%c", "%b"),
     Unary("%d", "i32", "not_i32", "%c"),
     Unary("%d", "i64", "neg_i64", "%c")}

InitFoldInt ==
    /\ \E a \in FoldIntA, b \in FoldIntB, ty \in {"i32", "i64"}, op \in FoldIntOps,
          xy \in FoldOperands, u \in Opt(FoldIntUsers) :
          oir = Doc(<<Function("f", <<Param("x", "i32")>>, <<"i32">>,
                               <<Block("entry",
                                       <<a, b, Binary("%c", ty, op, xy[1], xy[2])>> \o u,
                                       Return(<<"%c">>))>>,
                               TRUE, "internal")>>,
                    <<>>, NoCerts)
    /\ orig = oir
    /\ prev = oir
    /\ hist = <<>>
    /\ tir = NoTir
    /\ report = NoReport
    /\ wat = NoWat
    /\ first = NoFirst
    /\ drv = NoDriver

SpecFoldInt == InitFoldInt /\ [][NextOpt]_vars

\* the literal of the Const that binds rid among the first n instructions
\* of a block: {} if no Const binds it there
ConstLiteralsBefore(bb, n, rid) ==
    {bb.insts[j].cvalue.value :
        j \in {j \in 1..(n - 1) : /\ bb.insts[j].kind = "Const"
                                  /\ bb.insts[j].bind.has
                                  /\ bb.insts[j].bind.result = rid}}

\* the integer a op b, for the operation named by the first three letters
IntResult(op, a, b) ==
    CASE SubSeq(op, 1, 3) = "add" -> BigAdd(a, b)
      [] SubSeq(op, 1, 3) = "sub" -> BigSub(a, b)
      [] SubSeq(op, 1, 3) = "mul" -> BigMul(a, b)

\* r is the residue of x modulo 2^(8*w): 0 <= r < 2^(8*w) and 2^(8*w) | x - r
IsResidue(r, x, w) ==
    /\ r.t = "int" /\ ~r.neg /\ Len(r.mag) <= w
    /\ \A i \in 1..w : Limb(BigSub(x, r).mag, i) = 0

\* instruction i of block bb of the document before the last operation is a
\* Binary op with bind type ty over two integer Consts bound earlier in bb,
\* and the same place of the document after it holds their folded Const
FoldedAt(bbPrev, bbNow, i, ops, ty, w) ==
    LET p == bbPrev.insts[i]
    IN  (/\ p.kind = "Binary" /\ p.op \in ops /\ p.bind.has /\ p.bind.ty = ty)
        => \A a \in ConstLiteralsBefore(bbPrev, i, p.lhs) :
           \A b \in ConstLiteralsBefore(bbPrev, i, p.rhs) :
              (a.t = "int" /\ b.t = "int") =>
                 /\ Len(bbNow.insts) = Len(bbPrev.insts)
                 /\ bbNow.insts[i].kind = "Const"
                 /\ bbNow.insts[i].bind = p.bind
                 /\ IsResidue(bbNow.insts[i].cvalue.value, IntResult(p.op, a, b), w)

\* C5: run_const_fold replaces every Binary add/sub/mul of bind type i32
\* (i64) over two integer Consts bound earlier in its block by a Const with
\* the same bind and the literal (a op b) mod 2^32 (2^64); add_i32 of 2 and
\* 3 gives 5, add_i32 of 0xFFFFFFFF and 1 gives 0.
C5_FoldWraps ==
    Last = "const_fold" =>
        \A f \in DOMAIN prev.module.functions :
        \A bk \in DOMAIN prev.module.functions[f].blocks :
            LET bbPrev == prev.module.functions[f].blocks[bk]
                bbNow  == oir.module.functions[f].blocks[bk]
            IN  \A i \in DOMAIN bbPrev.insts :
                   /\ FoldedAt(bbPrev, bbNow, i, {"add_i32", "sub_i32", "mul_i32"}, "i32", 4)
                   /\ FoldedAt(bbPrev, bbNow, i, {"add_i64", "sub_i64", "mul_i64"}, "i64", 8)
                   /\ LET p == bbPrev.insts[i]
                      IN  (p.kind = "Binary" /\ p.op = "add_i32" /\ p.bind.ty = "i32") =>
                             /\ (/\ ConstLiteralsBefore(bbPrev, i, p.lhs) = {I(2)}
                                 /\ ConstLiteralsBefore(bbPrev, i, p.rhs) = {I(3)})
                                => bbNow.insts[i].cvalue.value = I(5)
                             /\ (/\ ConstLiteralsBefore(bbPrev, i, p.lhs) = {MASK32}
                                 /\ ConstLiteralsBefore(bbPrev, i, p.rhs) = {I(1)})
                                => bbNow.insts[i].cvalue.value = I(0)

\* const-fold has just folded add_i32 of the Consts 0xFFFFFFFF and 1
C5_Witness ==
    /\ Last = "const_fold"
    /\ \E fn \in Functions(prev) : \E bk \in DOMAIN fn.blocks :
       \E i \in DOMAIN fn.blocks[bk].insts :
          LET p == fn.blocks[bk].insts[i]
          IN  /\ p.kind = "Binary" /\ p.op = "add_i32" /\ p.bind.ty = "i32"
              /\ ConstLiteralsBefore(fn.blocks[bk], i, p.lhs) = {MASK32}
              /\ ConstLiteralsBefore(fn.blocks[bk], i, p.rhs) = {I(1)}
              /\ \E g \in Functions(oir) :
                    g.name = fn.name /\ g.blocks[bk].insts[i].kind = "Const"

-----------------------------------------------------------------------------
(* The float folding family: two Consts, a Binary over them with a float   *)
(* bind type, and optionally an instruction that uses its result.          *)

FoldFloatA ==
    {Const("%a", "f32", Float(1, 1)), Const("%a", "f32", Float(5, 2)),
     Const("%a", "f64", Float(0, 1)), Const("%a", "i32", I(4))}

FoldFloatB ==
    {Const("%b", "f32", Float(0, 1)), Const("%b", "f64", Float(0, 1)),
     Const("%b", "i32", I(0)), Const("%b", "f32", Float(1, 2)),
     Const("%b", "f64", Float(0 - 2, 1))}

FoldFloatOps == {"div_f32", "div_f64", "sub_f32", "mul_f64"}

FoldFloatUsers ==
    {Binary("%d", "f32", "div_f32", "%a", "%c"),
     Binary("%d", "f64", "div_f64", "%c", "%b"),
     Unary("%d", "f32", "abs_f32", "%c")}

InitFoldFloat ==
    /\ \E a \in FoldFloatA, b \in FoldFloatB, ty \in {"f32", "f64"}, op \in FoldFloatOps,
          xy \in FoldOperands, u \in Opt(FoldFloatUsers) :
          oir = Doc(<<Function("f", <<Param("x", "f32")>>, <<"f32">>,
                               <<Block("entry",
                                       <<a, b, Binary("%c", ty, op, xy[1], xy[2])>> \o u,
                                       Return(<<"%c">>))>>,
                               TRUE, "internal")>>,
                    <<>>, NoCerts)
    /\ orig = oir
    /\ prev = oir
    /\ hist = <<>>
    /\ tir = NoTir
    /\ report = NoReport
    /\ wat = NoWat
    /\ first = NoFirst
    /\ drv = NoDriver

SpecFoldFloat == InitFoldFloat /\ [][NextOpt]_vars

IsZeroLit(lit) ==
    \/ lit.t = "int" /\ lit.mag = <<>>
    \/ lit.t = "float" /\ lit.num = 0

\* instruction i of bb is a division whose rhs is a constant zero: after
\* const-fold every known constant is a Const, so the rhs is bound by a
\* Const with a zero literal in the folded block bbNow
DivByKnownZero(bbPrev, bbNow, i) ==
    /\ bbPrev.insts[i].kind = "Binary"
    /\ bbPrev.insts[i].op \in {"div_f32", "div_f64"}
    /\ \E z \in ConstLiteralsBefore(bbNow, i, bbPrev.insts[i].rhs) : IsZeroLit(z)

\* C6: a run of const-fold leaves every div_f32/div_f64 whose rhs is a
\* known constant zero as it was (a Binary with the same op, bind and
\* operands) and does not enter its result id in the constant environment;
\* this holds of every run, so of any number of consecutive runs.
C6_NoFoldByZero ==
    Last = "const_fold" =>
        \A f \in DOMAIN prev.module.functions :
        \A bk \in DOMAIN prev.module.functions[f].blocks :
            LET bbPrev == prev.module.functions[f].blocks[bk]
                bbNow  == oir.module.functions[f].blocks[bk]
            IN  \A i \in DOMAIN bbPrev.insts :
                   DivByKnownZero(bbPrev, bbNow, i) =>
                      /\ bbNow.insts[i] = bbPrev.insts[i]
                      /\ bbPrev.insts[i].bind.result
                            \notin DOMAIN FoldBlockState(bbPrev).const_env

\* const-fold has run twice in a row over a div_f64 by a Const zero whose
\* bind type matches the op
C6_Witness ==
    /\ hist = <<"const_fold", "const_fold">>
    /\ \E fn \in Functions(prev) : \E g \in Functions(oir) :
          /\ g.name = fn.name
          /\ \E i \in DOMAIN fn.blocks[1].insts :
                /\ DivByKnownZero(fn.blocks[1], g.blocks[1], i)
                /\ fn.blocks[1].insts[i].op = "div_f64"
                /\ fn.blocks[1].insts[i].bind.ty = "f64"

-----------------------------------------------------------------------------
(* lower_from_tir.py                                                       *)

\* T-IR terms and declarations; "" stands for an absent key
Term(kind, param, bkind, bname) ==
    [kind |-> kind, param |-> [name |-> param],
     body |-> [kind |-> bkind, name |-> bname]]

NoTerm == Term("", "", "", "")

Decl(kind, name, proof_relevance, term) ==
    [kind |-> kind, name |-> name, proof_relevance |-> proof_relevance,
     term |-> term]

Tir(decls) == [module |-> [name |-> "M", decls |-> decls]]

\* str(x) of a name read with .get(): None for an absent key
StrOf(s) == IF s = "" THEN "None" ELSE s

ErasureCert(sym) == [symbol |-> sym, reason |-> "proof-irrelevant"]

PassReport_to_oir_certs(rep) ==
    [erasure |-> rep.erasure, dce |-> rep.dce, guards |-> rep.guards]

_make_stub_function ==
    [Function("stub_entry", <<>>, <<>>,
              <<Block("entry", <<>>, Return(<<>>))>>, FALSE, "")
       EXCEPT !.attrs = Attrs(TRUE)]

\* the function emitted for the id-like lambda: one i32 parameter x_name,
\* one i32 result, one block returning the value ret
IdFunction(name, x_name, ret) ==
    [Function(name, <<Param(x_name, "i32")>>, <<"i32">>,
              <<Block("entry", <<>>, Return(<<ret>>))>>, TRUE, "")
       EXCEPT !.attrs = Attrs(TRUE)]

\* str(param.get("name") or "x")
XName(term) == IF term.param.name = "" THEN "x" ELSE term.param.name

\* a mutant of the skip: no note is recorded
Skipped_silent(d, rep) == rep

\* the report after the note of a skipped definition
Skipped(d, rep) ==
    [rep EXCEPT !.notes =
        Append(@, "skip definition " \o StrOf(d.name)
                  \o ": unsupported term kind " \o StrOf(d.term.kind))]

\* a mutant of _lower_definition: the identity function returns the literal
\* id "%x" whatever the parameter is called
_lower_definition_return_x(d, rep) ==
    IF /\ d.term.kind = "Lambda"
       /\ d.term.body.kind = "Var"
       /\ d.term.body.name = d.term.param.name
    THEN [fn |-> <<IdFunction(StrOf(d.name), XName(d.term), "%x")>>,
          report |-> rep]
    ELSE [fn |-> <<>>, report |-> Skipped(d, rep)]

\* the result is the Optional function as a sequence of length 0 or 1,
\* together with the report
_lower_definition(d, rep) ==
    IF /\ d.term.kind = "Lambda"
       /\ d.term.body.kind = "Var"
       /\ d.term.body.name = d.term.param.name
    THEN [fn |-> <<IdFunction(StrOf(d.name), XName(d.term),
                              "%" \o XName(d.term))>>,
          report |-> rep]
    ELSE [fn |-> <<>>, report |-> Skipped(d, rep)]

\* oir_functions.append(fn) if fn is not None
Lowered1(st, r) == [fns |-> st.fns \o r.fn, report |-> r.report]

\* a mutant of the declaration loop: the erasure certificates are prepended
RECURSIVE LowerDecls_prepend_cert(_, _)
LowerDecls_prepend_cert(decls, st) ==
    IF decls = <<>> THEN st
    ELSE IF Head(decls).kind = "Definition"
            /\ Head(decls).proof_relevance = "proof"
    THEN LowerDecls_prepend_cert(Tail(decls),
             IF Head(decls).name # ""
             THEN [st EXCEPT !.report.erasure =
                      <<ErasureCert(Head(decls).name)>> \o @]
             ELSE st)
    ELSE IF Head(decls).kind = "Definition"
    THEN LowerDecls_prepend_cert(Tail(decls),
             Lowered1(st, _lower_definition(Head(decls), st.report)))
    ELSE LowerDecls_prepend_cert(Tail(decls), st)

\* the loop over mod["decls"] of lower(): st holds oir_functions and the
\* report
RECURSIVE LowerDecls(_, _)
LowerDecls(decls, st) ==
    IF decls = <<>> THEN st
    ELSE IF Head(decls).kind = "Definition"
            /\ Head(decls).proof_relevance = "proof"
    THEN LowerDecls(Tail(decls),
             IF Head(decls).name # ""
             THEN [st EXCEPT !.report.erasure =
                      Append(@, ErasureCert(Head(decls).name))]
             ELSE st)
    ELSE IF Head(decls).kind = "Definition"
    THEN LowerDecls(Tail(decls),
             Lowered1(st, _lower_definition(Head(decls), st.report)))
    ELSE LowerDecls(Tail(decls), st)

\* a mutant of the end of lower(): the stub is appended to every module
LowerResult_always_stub(st) ==
    [oir |-> Doc(st.fns \o <<_make_stub_function>>,
                 <<>>, PassReport_to_oir_certs(st.report)),
     report |-> [st.report EXCEPT !.dceShared = TRUE]]

\* the stub when nothing was lowered, and the returned document, whose
\* certificate lists are the report's own lists
LowerResult(st) ==
    [oir |-> Doc(IF st.fns = <<>> THEN <<_make_stub_function>> ELSE st.fns,
                 <<>>, PassReport_to_oir_certs(st.report)),
     report |-> [st.report EXCEPT !.dceShared = TRUE]]

lower(t, rep) ==
    LowerResult(LowerDecls(t.module.decls, [fns |-> <<>>, report |-> rep]))

-----------------------------------------------------------------------------
(* compile_oir_to_wat.py                                                   *)

\* exceptions: exc "" is none raised
NoErr == [exc |-> "", msg |-> ""]

Err(exc, msg) == [exc |-> exc, msg |-> msg]

\* repr() of an Optional string: 'text' or None
Repr(s) == IF s = "" THEN "None" ELSE "'" \o s \o "'"

Digit(d) == SubSeq("0123456789", d + 1, d + 1)

\* str() of a natural number
RECURSIVE NatStr(_)
NatStr(n) == IF n < 10 THEN Digit(n) ELSE NatStr(n \div 10) \o Digit(n % 10)

\* quotient (limbs 1..i) and remainder of a magnitude by a small divisor
RECURSIVE MagDivSmall(_, _, _, _)
MagDivSmall(m, i, r, d) ==
    IF i = 0 THEN [q |-> <<>>, r |-> r]
    ELSE LET cur  == r * 256 + m[i]
             rest == MagDivSmall(m, i - 1, cur % d, d)
         IN  [q |-> Append(rest.q, cur \div d), r |-> rest.r]

RECURSIVE DecDigits(_)
DecDigits(m) ==
    IF m = <<>> THEN ""
    ELSE LET dm == MagDivSmall(m, Len(m), 0, 10)
         IN  DecDigits(MagNorm(dm.q)) \o Digit(dm.r)

RECURSIVE FracDigits(_, _, _)
FracDigits(rem, den, k) ==
    IF rem = 0 \/ k = 0 THEN ""
    ELSE Digit((rem * 10) \div den) \o FracDigits((rem * 10) % den, den, k - 1)

\* the text of a literal in an f-string: decimal for an int, the shortest
\* positional form for a float (up to 16 fractional digits), None for null
PyStr(lit) ==
    IF lit.t = "int"
    THEN IF lit.mag = <<>> THEN "0"
         ELSE (IF lit.neg THEN "-" ELSE "") \o DecDigits(lit.mag)
    ELSE IF lit.t = "float"
    THEN LET a    == Abs(lit.num)
             frac == FracDigits(a % lit.den, lit.den, 16)
         IN  (IF lit.num < 0 THEN "-" ELSE "") \o NatStr(a \div lit.den)
             \o "." \o (IF frac = "" THEN "0" ELSE frac)
    ELSE "None"

\* the result is the WAT type, or the ValueError raised
_ty_to_wat(ty) ==
    IF ty \in {"i32", "i64", "f32", "f64"} THEN [err |-> NoErr, wty |-> ty]
    ELSE IF ty = "unit" THEN [err |-> NoErr, wty |-> ""]
    ELSE [err |-> Err("ValueError",
                      "unsupported OType in MVP codegen: " \o Repr(ty)),
          wty |-> ""]

\* the characters str.isalnum() accepts, among those of the model's names
AlnumChars ==
    {SubSeq("abcdefghijklmnopqrstuvwxyzABCDEFGHIJKLMNOPQRSTUVWXYZ0123456789",
            i, i) : i \in 1..62}

RECURSIVE _sanitize_sym(_)
_sanitize_sym(name) ==
    IF name = "" THEN ""
    ELSE LET ch == SubSeq(name, 1, 1)
         IN  (IF ch \in AlnumChars \/ ch \in {"_", ".", "/"} THEN ch ELSE "_")
             \o _sanitize_sym(Tail(name))

\* sep.join(parts)
RECURSIVE Join(_, _)
Join(parts, sep) ==
    IF parts = <<>> THEN ""
    ELSE IF Len(parts) = 1 THEN parts[1]
    ELSE parts[1] \o sep \o Join(Tail(parts), sep)

\* str.strip() of blanks
RECURSIVE LStrip(_)
LStrip(s) == IF s # "" /\ SubSeq(s, 1, 1) = " " THEN LStrip(Tail(s)) ELSE s

RECURSIVE RStrip(_)
RStrip(s) ==
    IF s # "" /\ SubSeq(s, Len(s), Len(s)) = " "
    THEN RStrip(SubSeq(s, 1, Len(s) - 1)) ELSE s

Strip(s) == RStrip(LStrip(s))

\* s.endswith(suffix)
EndsWith(s, suffix) ==
    Len(s) >= Len(suffix) /\ SubSeq(s, Len(s) - Len(suffix) + 1, Len(s)) = suffix

_unop_to_wat == [abs_f32 |-> "f32.abs", abs_f64 |-> "f64.abs"]

_binop_to_wat ==
    [add_i32 |-> "i32.add", sub_i32 |-> "i32.sub", mul_i32 |-> "i32.mul",
     div_s_i32 |-> "i32.div_s", div_u_i32 |-> "i32.div_u",
     rem_s_i32 |-> "i32.rem_s", rem_u_i32 |-> "i32.rem_u",
     and_i32 |-> "i32.and", or_i32 |-> "i32.or", xor_i32 |-> "i32.xor",
     shl_i32 |-> "i32.shl", shr_s_i32 |-> "i32.shr_s", shr_u_i32 |-> "i32.shr_u",
     eq_i32 |-> "i32.eq", ne_i32 |-> "i32.ne",
     lt_s_i32 |-> "i32.lt_s", lt_u_i32 |-> "i32.lt_u",
     le_s_i32 |-> "i32.le_s", le_u_i32 |-> "i32.le_u",
     gt_s_i32 |-> "i32.gt_s", gt_u_i32 |-> "i32.gt_u",
     ge_s_i32 |-> "i32.ge_s", ge_u_i32 |-> "i32.ge_u",
     add_i64 |-> "i64.add", sub_i64 |-> "i64.sub", mul_i64 |-> "i64.mul",
     div_s_i64 |-> "i64.div_s", div_u_i64 |-> "i64.div_u",
     and_i64 |-> "i64.and", or_i64 |-> "i64.or", xor_i64 |-> "i64.xor",
     shl_i64 |-> "i64.shl", shr_s_i64 |-> "i64.shr_s", shr_u_i64 |-> "i64.shr_u",
     eq_i64 |-> "i64.eq", ne_i64 |-> "i64.ne",
     lt_s_i64 |-> "i64.lt_s", le_s_i64 |-> "i64.le_s",
     gt_s_i64 |-> "i64.gt_s", ge_s_i64 |-> "i64.ge_s",
     add_f32 |-> "f32.add", sub_f32 |-> "f32.sub", mul_f32 |-> "f32.mul",
     div_f32 |-> "f32.div",
     eq_f32 |-> "f32.eq", ne_f32 |-> "f32.ne", lt_f32 |-> "f32.lt",
     le_f32 |-> "f32.le", gt_f32 |-> "f32.gt", ge_f32 |-> "f32.ge",
     add_f64 |-> "f64.add", sub_f64 |-> "f64.sub", mul_f64 |-> "f64.mul",
     div_f64 |-> "f64.div",
     eq_f64 |-> "f64.eq", ne_f64 |-> "f64.ne", lt_f64 |-> "f64.lt",
     le_f64 |-> "f64.le", gt_f64 |-> "f64.gt", ge_f64 |-> "f64.ge"]

\* the lowering state of one function: the exception raised (if any),
\* locals_map in insertion order and inst_lines
NoGen == [err |-> NoErr, locals |-> <<>>, lines |-> <<>>]

Raise(st, exc, msg) == [st EXCEPT !.err = Err(exc, msg)]

NotImplemented(st, name, what) ==
    Raise(st, "NotImplementedError", "function " \o name \o ": " \o what)

LocalNames(locals) == {locals[i].name : i \in DOMAIN locals}

_ensure_local(locals, lname, wty) ==
    IF lname \in LocalNames(locals) THEN locals
    ELSE Append(locals, [name |-> lname, wty |-> wty])

\* appends the local.get of value_id to inst_lines, or raises
_emit_get(st, name, param_syms, value_id) ==
    IF st.err # NoErr THEN st
    ELSE IF ~IsValueId(value_id)
    THEN NotImplemented(st, name, "unsupported value ref " \o Repr(value_id))
    ELSE IF Tail(value_id) \in Range(param_syms)
            \/ Tail(value_id) \in LocalNames(st.locals)
    THEN [st EXCEPT !.lines = Append(@, "(local.get $" \o Tail(value_id) \o ")")]
    ELSE NotImplemented(st, name,
                        "reference to unknown symbol '" \o Tail(value_id) \o "'")

RECURSIVE EmitGets(_, _, _, _)
EmitGets(st, name, param_syms, ids) ==
    IF ids = <<>> THEN st
    ELSE EmitGets(_emit_get(st, name, param_syms, Head(ids)), name, param_syms,
                  Tail(ids))

Emit(st, line) == IF st.err # NoErr THEN st ELSE [st EXCEPT !.lines = Append(@, line)]

\* _ensure_local of the bind's result with the type t, or t's ValueError
BindTyped(st, bind, t) ==
    IF t.err # NoErr THEN [st EXCEPT !.err = t.err]
    ELSE [st EXCEPT !.locals = _ensure_local(@, Tail(bind.result), t.wty)]

\* the check of the bind's result id, _ty_to_wat of its type, _ensure_local
BindLocal(st, name, bind, kind) ==
    IF ~IsValueId(bind.result)
    THEN NotImplemented(st, name,
                        kind \o " requires single-result bind with '%'-id")
    ELSE BindTyped(st, bind, _ty_to_wat(bind.ty))

SetLocal(st, bind) == Emit(st, "(local.set $" \o Tail(bind.result) \o ")")

\* the Const case after the bind: wty and wcty are the results of _ty_to_wat
ConstTyped(s1, name, inst, wty, c) ==
    IF s1.err # NoErr THEN s1
    ELSE IF c.err # NoErr THEN [s1 EXCEPT !.err = c.err]
    ELSE IF c.wty # wty
    THEN NotImplemented(s1, name,
                        "Const type mismatch " \o c.wty \o " vs " \o wty)
    ELSE SetLocal(Emit(s1, wty \o ".const " \o PyStr(inst.cvalue.value)),
                  inst.bind)

GenConst(st, name, inst) ==
    ConstTyped(BindLocal(st, name, inst.bind, "Const"), name, inst,
               _ty_to_wat(inst.bind.ty).wty,
               _ty_to_wat(IF inst.cvalue.ty = "" THEN inst.bind.ty
                          ELSE inst.cvalue.ty))

\* "i32" if op.endswith("i32") else "i64"
ZTy(op) == IF EndsWith(op, "i32") THEN "i32" ELSE "i64"

\* the Unary case after the bind
UnaryBound(s1, name, param_syms, inst) ==
    IF s1.err # NoErr THEN s1
    ELSE IF inst.op \in {"neg_i32", "neg_i64"}
    THEN SetLocal(Emit(_emit_get(Emit(s1, ZTy(inst.op) \o ".const 0"), name,
                                 param_syms, inst.arg),
                       ZTy(inst.op) \o ".sub"), inst.bind)
    ELSE IF inst.op \in {"not_i32", "not_i64"}
    THEN SetLocal(Emit(_emit_get(Emit(s1, ZTy(inst.op) \o ".const -1"), name,
                                 param_syms, inst.arg),
                       ZTy(inst.op) \o ".xor"), inst.bind)
    ELSE IF inst.op \notin DOMAIN _unop_to_wat
    THEN NotImplemented(s1, name, "unsupported unary op " \o Repr(inst.op))
    ELSE SetLocal(Emit(_emit_get(s1, name, param_syms, inst.arg),
                       _unop_to_wat[inst.op]), inst.bind)

GenUnary(st, name, param_syms, inst) ==
    UnaryBound(BindLocal(st, name, inst.bind, "Unary"), name, param_syms, inst)

\* the pushes of the operands ids, the opcode wop and the local.set
PushApplySet(s1, name, param_syms, ids, wop, bind) ==
    IF s1.err # NoErr THEN s1
    ELSE SetLocal(Emit(EmitGets(s1, name, param_syms, ids), wop), bind)

\* a mutant of the Binary case: the operands are pushed right to left
GenBinary_swapped(st, name, param_syms, inst) ==
    IF inst.op \notin DOMAIN _binop_to_wat
    THEN NotImplemented(st, name, "unsupported binary op " \o Repr(inst.op))
    ELSE PushApplySet(BindLocal(st, name, inst.bind, "Binary"), name, param_syms,
                      <<inst.rhs, inst.lhs>>, _binop_to_wat[inst.op], inst.bind)

GenBinary(st, name, param_syms, inst) ==
    IF inst.op \notin DOMAIN _binop_to_wat
    THEN NotImplemented(st, name, "unsupported binary op " \o Repr(inst.op))
    ELSE PushApplySet(BindLocal(st, name, inst.bind, "Binary"), name, param_syms,
                      <<inst.lhs, inst.rhs>>, _binop_to_wat[inst.op], inst.bind)

GenSelect(st, name, param_syms, inst) ==
    PushApplySet(BindLocal(st, name, inst.bind, "Select"), name, param_syms,
                 <<inst.ifTrue, inst.ifFalse, inst.cond>>, "select", inst.bind)

\* the local.set of the single result of a Call, after its bind
CallBound(s2, bind) == IF s2.err # NoErr THEN s2 ELSE SetLocal(s2, bind)

\* the Call case after the pushes of the arguments and the call
CallResults(s1, name, inst) ==
    IF s1.err # NoErr THEN s1
    ELSE IF Len(inst.binds) > 1
    THEN NotImplemented(s1, name,
                        "Call with multiple results not supported in MVP")
    ELSE IF Len(inst.binds) = 1
    THEN CallBound(BindLocal(s1, name, inst.binds[1], "Call"), inst.binds[1])
    ELSE s1

GenCall(st, name, param_syms, inst) ==
    IF inst.callee = ""
    THEN NotImplemented(st, name, "Call requires string callee identifier")
    ELSE CallResults(Emit(EmitGets(st, name, param_syms, inst.args),
                          "(call $" \o _sanitize_sym(inst.callee) \o ")"),
                     name, inst)

\* a mutant of GenInst: an instruction of an unsupported kind is passed over
GenInst_skip_unsupported(st, name, param_syms, inst) ==
    IF st.err # NoErr THEN st
    ELSE IF inst.kind = "Const" THEN GenConst(st, name, inst)
    ELSE IF inst.kind = "Unary" THEN GenUnary(st, name, param_syms, inst)
    ELSE IF inst.kind = "Binary" THEN GenBinary(st, name, param_syms, inst)
    ELSE IF inst.kind = "Select" THEN GenSelect(st, name, param_syms, inst)
    ELSE IF inst.kind = "Call" THEN GenCall(st, name, param_syms, inst)
    ELSE st

\* one iteration of the loop over the entry block's instructions
GenInst(st, name, param_syms, inst) ==
    IF st.err # NoErr THEN st
    ELSE IF inst.kind = "Const" THEN GenConst(st, name, inst)
    ELSE IF inst.kind = "Unary" THEN GenUnary(st, name, param_syms, inst)
    ELSE IF inst.kind = "Binary" THEN GenBinary(st, name, param_syms, inst)
    ELSE IF inst.kind = "Select" THEN GenSelect(st, name, param_syms, inst)
    ELSE IF inst.kind = "Call" THEN GenCall(st, name, param_syms, inst)
    ELSE IF inst.kind \in {"Load", "Store", "HeapNew", "HeapGet", "HeapSet",
                           "Guard", "TagOf", "LenOf"}
    THEN NotImplemented(st, name, "instruction kind " \o Repr(inst.kind)
                                  \o " not supported in MVP")
    ELSE NotImplemented(st, name, "unknown instruction kind " \o Repr(inst.kind))

RECURSIVE GenInsts(_, _, _, _)
GenInsts(st, name, param_syms, insts) ==
    IF insts = <<>> THEN st
    ELSE GenInsts(GenInst(st, name, param_syms, Head(insts)), name, param_syms,
                  Tail(insts))

NoParams == [err |-> NoErr, syms |-> <<>>, wat |-> <<>>]

\* one iteration of the loop over the parameters: t is _ty_to_wat of the
\* type, psym the sanitized name
ParamStep(st, t, psym) ==
    IF st.err # NoErr THEN st
    ELSE IF t.err # NoErr THEN [st EXCEPT !.err = t.err]
    ELSE [st EXCEPT !.syms = Append(@, psym),
                    !.wat = Append(@, "(param $" \o psym \o " " \o t.wty \o ")")]

\* the loop over the parameters from index i on: param_syms, wat_params, or
\* the ValueError of _ty_to_wat
RECURSIVE GenParamsFrom(_, _, _)
GenParamsFrom(st, params, i) ==
    IF params = <<>> THEN st
    ELSE GenParamsFrom(
             ParamStep(st, _ty_to_wat(Head(params).ty),
                       _sanitize_sym(IF Head(params).name = ""
                                     THEN "p" \o NatStr(i)
                                     ELSE Head(params).name)),
             Tail(params), i + 1)

GenParams(params) == GenParamsFrom(NoParams, params, 0)

\* the single result of type t
Result1(name, t) ==
    IF t.err # NoErr THEN [err |-> t.err, wat |-> <<>>]
    ELSE IF t.wty = ""
    THEN [err |-> Err("ValueError", "function " \o name
                      \o ": invalid unit type in results"),
          wat |-> <<>>]
    ELSE [err |-> NoErr, wat |-> <<"(result " \o t.wty \o ")">>]

\* wat_results, or the exception raised
GenResults(name, results) ==
    IF Len(results) > 1
    THEN [err |-> Err("NotImplementedError", "function " \o name
                      \o ": multiple results not supported in MVP"),
          wat |-> <<>>]
    ELSE IF Len(results) = 1 THEN Result1(name, _ty_to_wat(results[1]))
    ELSE [err |-> NoErr, wat |-> <<>>]

ReturnError(name, what) ==
    [err |-> Err("NotImplementedError", "function " \o name \o ": " \o what),
     lines |-> <<>>]

\* ret_lines, or the exception raised
GenReturn(name, param_syms, locals, term) ==
    IF term.kind # "Return"
    THEN ReturnError(name, "only Return terminator supported in MVP")
    ELSE IF Len(term.values) = 0 THEN [err |-> NoErr, lines |-> <<"nop">>]
    ELSE IF Len(term.values) > 1
    THEN ReturnError(name, "multiple return values not supported in MVP")
    ELSE IF ~IsValueId(term.values[1])
    THEN ReturnError(name, "MVP expects Return of single %symbol value")
    ELSE IF Tail(term.values[1]) \in Range(param_syms)
            \/ Tail(term.values[1]) \in LocalNames(locals)
    THEN [err |-> NoErr,
          lines |-> <<"(local.get $" \o Tail(term.values[1]) \o ")">>]
    ELSE ReturnError(name, "Return references unknown symbol '"
                           \o Tail(term.values[1]) \o "'")

LocalsDecls(locals) ==
    [i \in DOMAIN locals |->
        "(local $" \o locals[i].name \o " " \o locals[i].wty \o ")"]

\* (func $sname with the parameters and results, if any
Header(sname, header_parts) ==
    IF header_parts # "" THEN "(func $" \o sname \o " " \o header_parts
    ELSE "(func $" \o sname

Body(body_lines) ==
    IF body_lines # <<>> THEN Join(body_lines, "\n      ") ELSE "nop"

\* the header, the locals and the assembled text of one function
FuncText(fn, sname, wat_params, wat_results, locals, inst_lines, ret_lines) ==
    "  " \o (IF fn.export THEN "(export \"" \o sname \o "\") " ELSE "")
    \o Header(sname, Strip(Join(wat_params \o wat_results, " ")))
    \o "\n      " \o Body(LocalsDecls(locals) \o inst_lines \o ret_lines)
    \o "\n  )"

Failed(err) == [err |-> err, text |-> ""]

\* the function after its instructions (st), results (rs) and Return (rt)
FuncAssemble(fn, name, ps, st, rs, rt) ==
    IF st.err # NoErr THEN Failed(st.err)
    ELSE IF rs.err # NoErr THEN Failed(rs.err)
    ELSE IF rt.err # NoErr THEN Failed(rt.err)
    ELSE [err |-> NoErr,
          text |-> FuncText(fn, _sanitize_sym(name), ps.wat, rs.wat, st.locals,
                            st.lines, rt.lines)]

\* the function after its instructions
FuncAfterInsts(fn, name, ps, st) ==
    FuncAssemble(fn, name, ps, st, GenResults(name, fn.results),
                 GenReturn(name, ps.syms, st.locals, fn.blocks[1].term))

\* the function after its parameters
FuncAfterParams(fn, name, ps) ==
    IF ps.err # NoErr THEN Failed(ps.err)
    ELSE IF Len(fn.blocks) = 0
    THEN Failed(Err("ValueError", "function " \o name
                    \o ": expected at least one basic block"))
    ELSE FuncAfterInsts(fn, name, ps,
                        GenInsts(NoGen, name, ps.syms, fn.blocks[1].insts))

\* the text of one function, or the exception raised
_func_to_wat(fn) ==
    FuncAfterParams(fn, IF fn.name = "" THEN "f" ELSE fn.name,
                    GenParams(fn.params))

\* fun_txts.append(r): the exception of r ends the loop
AddText(acc, r) ==
    IF r.err # NoErr THEN [err |-> r.err, texts |-> <<>>]
    ELSE [acc EXCEPT !.texts = Append(@, r.text)]

\* the loop over the functions: fun_txts, or the first exception raised
RECURSIVE FunTexts(_, _)
FunTexts(fns, acc) ==
    IF fns = <<>> \/ acc.err # NoErr THEN acc
    ELSE FunTexts(Tail(fns), AddText(acc, _func_to_wat(Head(fns))))

\* the module text around the texts r of the functions
ModuleText(r) ==
    IF r.err # NoErr
    THEN [status |-> "error", text |-> "", exc |-> r.err.exc, msg |-> r.err.msg]
    ELSE [status |-> "ok",
          text |-> "(module\n  (memory (export \"memory\") 1)\n"
                   \o Join(r.texts, "\n") \o "\n)\n",
          exc |-> "", msg |-> ""]

oir_to_wat(doc) ==
    IF Len(doc.module.functions) = 0
    THEN [status |-> "ok", text |-> "(module)\n", exc |-> "", msg |-> ""]
    ELSE ModuleText(FunTexts(doc.module.functions,
                             [err |-> NoErr, texts |-> <<>>]))

-----------------------------------------------------------------------------
(* The pipeline: lowering, the passes, code generation.                    *)

\* names of the first and of the second declaration of a T-IR module
DeclNames1 == {"id", "f_2"}

DeclNames2 == {"g", "Thm1"}

ParamNames == {"x", "y_1"}

\* the declarations a module may hold under the name n
DeclMenu(n) ==
    {Decl("Definition", n, "proof", NoTerm),
     Decl("Definition", n, "proof", Term("Lambda", "x", "Var", "x")),
     Decl("Definition", n, "data", Term("App", "", "", "")),
     Decl("Definition", n, "data", NoTerm),
     Decl("Inductive", n, "", NoTerm)}
    \cup {Decl("Definition", n, "data", Term("Lambda", p, "Var", p)) : p \in ParamNames}
    \cup {Decl("Definition", n, "", Term("Lambda", p, "Var", p)) : p \in ParamNames}
    \cup {Decl("Definition", n, "data", Term("Lambda", p, "Var", "z")) : p \in ParamNames}

\* an identity definition that takes the name of the stub
StubNamed == Decl("Definition", "stub_entry", "data", Term("Lambda", "x", "Var", "x"))

\* an identity definition whose parameter name is not a WAT identifier
DashParam == Decl("Definition", "id", "data", Term("Lambda", "x-y", "Var", "x-y"))

TirModules ==
    {Tir(d1 \o d2) :
        d1 \in Opt(UNION {DeclMenu(n) : n \in DeclNames1})
                  \cup {<<StubNamed>>, <<DashParam>>},
        d2 \in Opt(UNION {DeclMenu(n) : n \in DeclNames2})}

\* a T-IR module in the hands of a fresh lowerer
InitPipeTir ==
    /\ tir \in TirModules
    /\ oir = NoDoc
    /\ orig = NoDoc
    /\ prev = NoDoc
    /\ hist = <<>>
    /\ report = NoReport
    /\ wat = NoWat
    /\ first = NoFirst
    /\ drv = NoDriver

\* the operand type an op is named after: the text after the last "_"
TyOfOp(op) == SubSeq(op, Len(op) - 2, Len(op))

\* a function of two parameters a and b with one Binary in its entry block
ArithFunction(name, export, op, lhs, rhs, ret) ==
    LET ty == TyOfOp(op)
    IN  Function(name, <<Param("a", ty), Param("b", ty)>>,
                 IF ret = <<>> THEN <<>> ELSE <<ty>>,
                 <<Block("entry", <<Binary("%c", ty, op, lhs, rhs)>>,
                         Return(ret))>>,
                 export, "")

\* an internal function that nothing refers to
HelperH ==
    Function("h", <<>>, <<>>, <<Block("entry", <<>>, Return(<<>>))>>, FALSE,
             "internal")

\* the shapes of the arithmetic function: its name and export flag, the
\* operands of the Binary, the returned values, the function next to it
ArithShape(name, export, lhs, rhs, ret, h) ==
    [name |-> name, export |-> export, lhs |-> lhs, rhs |-> rhs, ret |-> ret,
     h |-> h]

ArithShapes ==
    {ArithShape("f", TRUE, "%a", "%b", <<"%c">>, <<>>),
     ArithShape("f", TRUE, "%b", "%a", <<"%c">>, <<HelperH>>),
     ArithShape("add_i32", TRUE, "%a", "%a", <<"%c">>, <<>>),
     ArithShape("f", FALSE, "%a", "%b", <<"%c">>, <<>>),
     ArithShape("f", TRUE, "%a", "%b", <<"%a">>, <<>>),
     ArithShape("add_i32", TRUE, "%b", "%b", <<>>, <<HelperH>>)}

\* an O-IR document read from a file: no lowerer involved
InitPipeOir ==
    /\ \E op \in DOMAIN _binop_to_wat, s \in ArithShapes :
          oir = Doc(<<ArithFunction(s.name, s.export, op, s.lhs, s.rhs, s.ret)>>
                    \o s.h,
                    <<>>, NoCerts)
    /\ orig = oir
    /\ prev = oir
    /\ hist = <<>>
    /\ tir = NoTir
    /\ report = NoReport
    /\ wat = NoWat
    /\ first = NoFirst
    /\ drv = NoDriver

\* instructions that bind %c and %d with operands that name the parameter
\* a, the instruction's own result, the result of the other instruction or
\* the unbound id %z
RefFirst ==
    {Binary("%c", "i32", "add_i32", l, "%a") : l \in {"%a", "%c", "%d", "%z"}}

RefSecond ==
    {Unary("%d", "i32", "neg_i32", x) : x \in {"%c", "%d", "%z"}}
    \cup {SelectI("%d", "i32", "%a", "%d", "%c")}
    \cup {Call("g", <<x>>, <<Bind("%d", "i32")>>) : x \in {"%c", "%d"}}

\* an exported function r(a) of at most two instructions
RefFunction(insts, ret) ==
    Function("r", <<Param("a", "i32")>>, <<"i32">>,
             <<Block("entry", insts, Return(ret))>>, TRUE, "")

\* an O-IR document whose operands may fail to resolve
InitPipeRef ==
    /\ \E i1 \in Opt(RefFirst), i2 \in Opt(RefSecond),
          ret \in {<<"%a">>, <<"%c">>, <<"%d">>, <<"%z">>} :
          oir = Doc(<<RefFunction(i1 \o i2, ret)>>, <<>>, NoCerts)
    /\ orig = oir
    /\ prev = oir
    /\ hist = <<>>
    /\ tir = NoTir
    /\ report = NoReport
    /\ wat = NoWat
    /\ first = NoFirst
    /\ drv = NoDriver

InitPipe == InitPipeTir \/ InitPipeOir \/ InitPipeRef

\* LowerFromTIR(cfg).lower(tir)
Lower ==
    /\ tir # NoTir
    /\ oir = NoDoc
    /\ LET r == lower(tir, report)
       IN  /\ oir' = r.oir
           /\ orig' = r.oir
           /\ prev' = r.oir
           /\ report' = r.report
    /\ UNCHANGED <<hist, tir, wat, drv, first>>

\* oir_to_wat(oir): the text, or the exception raised
OirToWat ==
    /\ oir # NoDoc
    /\ wat.status = "none"
    /\ wat' = oir_to_wat(oir)
    /\ UNCHANGED <<oir, orig, prev, hist, tir, report, drv, first>>

NextPipe == Lower \/ RunConstFold \/ RunCse \/ RunDce \/ OirToWat

SpecPipe == InitPipe /\ [][NextPipe]_vars

\* needle occurs in text at position i
MatchAt(text, needle, i) ==
    \A k \in 1..Len(needle) :
        SubSeq(text, i + k - 1, i + k - 1) = SubSeq(needle, k, k)

\* text contains needle
Contains(text, needle) ==
    \E i \in 1..(Len(text) - Len(needle) + 1) : MatchAt(text, needle, i)

\* the least position from which needle occurs in text at or after from,
\* 0 when there is none
Find(text, needle, from) ==
    LET at == {i \in from..(Len(text) - Len(needle) + 1) :
                  MatchAt(text, needle, i)}
    IN  IF at = {} THEN 0 ELSE CHOOSE i \in at : \A j \in at : i <= j

Generated == wat.status # "none"

-----------------------------------------------------------------------------
(* Round trips through the pipeline.                                       *)

\* a document has been lowered from the T-IR module
Lowered == tir # NoTir /\ oir # NoDoc

WordChars ==
    {SubSeq("abcdefghijklmnopqrstuvwxyzABCDEFGHIJKLMNOPQRSTUVWXYZ0123456789_",
            i, i) : i \in 1..63}

\* s is a non-empty name of letters, digits and underscores
IsWord(s) == s # "" /\ \A i \in 1..Len(s) : SubSeq(s, i, i) \in WordChars

\* d is a non-proof Definition whose term is Lambda{param p, body Var p}
IsIdentityDef(d) ==
    /\ d.kind = "Definition"
    /\ d.proof_relevance # "proof"
    /\ d.term.kind = "Lambda"
    /\ d.term.body.kind = "Var"
    /\ d.term.body.name = d.term.param.name

\* only run_dce ran between lower() and oir_to_wat, if anything
OnlyDce == \A i \in DOMAIN hist : hist[i] = "dce"

\* fn is the identity function n of parameter p
IsIdentityFunction(fn, n, p) ==
    /\ fn.name = n
    /\ Len(fn.params) = 1
    /\ fn.params[1].name = p
    /\ fn.params[1].ty = "i32"
    /\ fn.results = <<"i32">>
    /\ Len(fn.blocks) = 1
    /\ fn.blocks[1].label = "entry"
    /\ fn.blocks[1].insts = <<>>
    /\ fn.blocks[1].term.kind = "Return"
    /\ fn.blocks[1].term.values = <<"%" \o p>>
    /\ fn.export = TRUE
    /\ fn.attrs.has
    /\ fn.attrs.pure = TRUE

\* C7: every identity definition n of parameter p (names of letters, digits
\* and underscores) is lowered to exactly one function named n, the identity
\* function of one i32 parameter p, exported and pure; and the text generated
\* from the lowered module, with or without run_dce in between, contains
\* (export "n") and (local.get $p).
C7_IdentityRoundTrip ==
    \A k \in DOMAIN tir.module.decls :
        LET d == tir.module.decls[k]
            n == d.name
            p == d.term.param.name
        IN  (Lowered /\ IsIdentityDef(d) /\ IsWord(n) /\ IsWord(p)) =>
              /\ Cardinality({i \in DOMAIN orig.module.functions :
                                orig.module.functions[i].name = n}) = 1
              /\ \A i \in DOMAIN orig.module.functions :
                    orig.module.functions[i].name = n
                        => IsIdentityFunction(orig.module.functions[i], n, p)
              /\ (Generated /\ OnlyDce) =>
                    /\ wat.status = "ok"
                    /\ Contains(wat.text, "(export \"" \o n \o "\")")
                    /\ Contains(wat.text, "(local.get $" \o p \o ")")

\* two identity definitions, one of them of the parameter y_1, lowered,
\* cleaned by run_dce and compiled
C7_Witness ==
    /\ Lowered
    /\ Generated
    /\ hist = <<"dce">>
    /\ Len(tir.module.decls) = 2
    /\ \A k \in DOMAIN tir.module.decls : IsIdentityDef(tir.module.decls[k])
    /\ tir.module.decls[2].term.param.name = "y_1"
    /\ Contains(wat.text, "(local.get $y_1)")

\* every declaration of the module is a proof Definition
AllProof ==
    \A k \in DOMAIN tir.module.decls :
        /\ tir.module.decls[k].kind = "Definition"
        /\ tir.module.decls[k].proof_relevance = "proof"

\* C8: lowering a module of proof Definitions only with a fresh lowerer gives
\* the stub as the only function and one erasure certificate {symbol: name,
\* reason: "proof-irrelevant"} per definition, in declaration order; after
\* run_dce the function list is empty and the generated text holds no
\* (func ...) form.
C8_ProofErasure ==
    (Lowered /\ AllProof) =>
        /\ Len(orig.module.functions) = 1
        /\ orig.module.functions[1].name = "stub_entry"
        /\ orig.module.functions[1].params = <<>>
        /\ orig.module.functions[1].results = <<>>
        /\ ~orig.module.functions[1].export
        /\ orig.certificates.erasure =
              [k \in DOMAIN tir.module.decls |->
                  [symbol |-> tir.module.decls[k].name,
                   reason |-> "proof-irrelevant"]]
        /\ report.erasure = orig.certificates.erasure
        /\ ("dce" \in Range(hist)) => oir.module.functions = <<>>
        /\ ("dce" \in Range(hist) /\ Generated) =>
              /\ wat.status = "ok"
              /\ ~Contains(wat.text, "(func")

\* two proof definitions lowered, the stub removed by run_dce, the empty
\* module compiled
C8_Witness ==
    /\ Lowered
    /\ AllProof
    /\ Len(tir.module.decls) = 2
    /\ hist = <<"dce">>
    /\ oir.module.functions = <<>>
    /\ Len(oir.certificates.erasure) = 2
    /\ wat.status = "ok"
    /\ Contains(wat.text, "(module")

\* the WAT opcode an op is named after: add_i32 is i32.add
MappedOpcode(op) ==
    SubSeq(op, Len(op) - 2, Len(op)) \o "." \o SubSeq(op, 1, Len(op) - 4)

\* fn is exported, its entry block holds one Binary of the lookup table over
\* two parameters, and it returns the result of the Binary
IsArithFunction(fn) ==
    /\ fn.export
    /\ Len(fn.blocks) >= 1
    /\ Len(fn.blocks[1].insts) = 1
    /\ LET b == fn.blocks[1].insts[1]
       IN  /\ b.kind = "Binary"
           /\ b.op \in DOMAIN _binop_to_wat
           /\ b.lhs \in ParamIds(fn)
           /\ b.rhs \in ParamIds(fn)
           /\ fn.blocks[1].term.kind = "Return"
           /\ fn.blocks[1].term.values = <<b.bind.result>>

\* the position after the last of the needles when they occur in text in
\* that order, one after the other, at or after from; 0 when they do not
RECURSIVE FindInOrder(_, _, _)
FindInOrder(text, needles, from) ==
    IF needles = <<>> THEN from
    ELSE LET p == Find(text, Head(needles), from)
         IN  IF p = 0 THEN 0
             ELSE FindInOrder(text, Tail(needles), p + Len(Head(needles)))

\* the tokens of the arithmetic function fn, in the order of the claim
ArithTokens(fn) ==
    LET b == fn.blocks[1].insts[1]
    IN  <<"(export \"" \o fn.name \o "\")",
          "(local.get $" \o Tail(b.lhs) \o ")",
          "(local.get $" \o Tail(b.rhs) \o ")",
          MappedOpcode(b.op),
          "(local.set $" \o Tail(b.bind.result) \o ")",
          "(local.get $" \o Tail(b.bind.result) \o ")">>

-----------------------------------------------------------------------------
(* The contract of lower().                                                *)

\* fn is the stub: named stub_entry, no params, no results, one block with
\* no instructions and Return of no values, not exported
IsStub(fn) ==
    /\ fn.name = "stub_entry"
    /\ fn.params = <<>>
    /\ fn.results = <<>>
    /\ Len(fn.blocks) = 1
    /\ fn.blocks[1].insts = <<>>
    /\ fn.blocks[1].term.kind = "Return"
    /\ fn.blocks[1].term.values = <<>>
    /\ fn.export = FALSE

\* the declarations of the module that lower to a function
LoweringDecls ==
    {k \in DOMAIN tir.module.decls : IsIdentityDef(tir.module.decls[k])}

\* C11: the module returned by lower() has at least one function; the stub
\* is among its functions if and only if no declaration lowered to a
\* function, and then the stub is its only function.
C11_StubIffNothingLowered ==
    Lowered =>
        /\ Len(orig.module.functions) >= 1
        /\ (\E i \in DOMAIN orig.module.functions :
               IsStub(orig.module.functions[i])) <=> (LoweringDecls = {})
        /\ (LoweringDecls = {}) =>
              /\ Len(orig.module.functions) = 1
              /\ IsStub(orig.module.functions[1])

\* an Inductive and a skipped Definition lowered to the stub alone
C11_Witness ==
    /\ Lowered
    /\ Len(tir.module.decls) = 2
    /\ tir.module.decls[1].kind = "Inductive"
    /\ tir.module.decls[2].term.kind = "App"
    /\ Len(orig.module.functions) = 1
    /\ IsStub(orig.module.functions[1])

\* d is a Definition marked as a proof
IsProofDef(d) == d.kind = "Definition" /\ d.proof_relevance = "proof"

\* d is a non-proof Definition that is not the identity-lambda pattern
IsSkippedDef(d) ==
    d.kind = "Definition" /\ ~IsProofDef(d) /\ ~IsIdentityDef(d)

\* the names of a sequence of declarations or functions
Names(s) == [i \in DOMAIN s |-> s[i].name]

\* the note of the skipped definition d
SkipNote(d) ==
    "skip definition " \o d.name \o ": unsupported term kind "
        \o (IF d.term.kind = "" THEN "None" ELSE d.term.kind)

\* C12: lower() returns a module for every T-IR module; every non-proof
\* Definition that is not the identity lambda leaves exactly one skip note
\* (in declaration order) and no function, an Inductive leaves nothing, and
\* the other declarations are lowered all the same: the functions are those
\* of the identity definitions in order (the stub when there is none) and the
\* erasure certificates those of the proof definitions in order.
C12_SkipIsNotFatal ==
    Lowered =>
        LET decls == tir.module.decls
            skipped == SelectSeq(decls, IsSkippedDef)
            ids == SelectSeq(decls, IsIdentityDef)
            proofs == SelectSeq(decls, IsProofDef)
        IN  /\ Len(report.notes) = Len(skipped)
            /\ \A i \in DOMAIN skipped : report.notes[i] = SkipNote(skipped[i])
            /\ IF ids = <<>>
               THEN Names(orig.module.functions) = <<"stub_entry">>
               ELSE Names(orig.module.functions) = Names(ids)
            /\ Names(proofs) = [i \in DOMAIN orig.certificates.erasure |->
                                   orig.certificates.erasure[i].symbol]

\* a skipped Definition followed by an identity Definition: one note, and
\* the identity function is there
C12_Witness ==
    /\ Lowered
    /\ Len(tir.module.decls) = 2
    /\ IsSkippedDef(tir.module.decls[1])
    /\ tir.module.decls[1].term.kind = "Lambda"
    /\ IsIdentityDef(tir.module.decls[2])
    /\ Len(report.notes) = 1
    /\ Names(orig.module.functions) = <<tir.module.decls[2].name>>

-----------------------------------------------------------------------------
(* Errors of code generation.                                              *)

\* the result ids bound by the instructions of bb before instruction i
ResultsBefore(bb, i) ==
    Range(BlockResults([bb EXCEPT !.insts = SubSeq(@, 1, i - 1)]))

\* instruction i of the entry block of fn has an operand that names neither
\* a parameter nor a result bound before i
UnresolvedOperandAt(fn, i) ==
    \E o \in Operands(fn.blocks[1].insts[i]) :
        o \notin ParamIds(fn) \cup ResultsBefore(fn.blocks[1], i)

\* the Return of the entry block of fn has a value that names neither a
\* parameter nor a result of the entry block
UnresolvedReturn(fn) ==
    /\ fn.blocks[1].term.kind = "Return"
    /\ \E v \in Range(fn.blocks[1].term.values) :
          v \notin ParamIds(fn) \cup Range(BlockResults(fn.blocks[1]))

Unresolved(fn) ==
    /\ Len(fn.blocks) >= 1
    /\ \/ \E i \in DOMAIN fn.blocks[1].insts : UnresolvedOperandAt(fn, i)
       \/ UnresolvedReturn(fn)

\* C13: oir_to_wat raises whenever an operand of an entry-block instruction
\* or the value of the Return names an id that is neither a parameter nor
\* the result of an instruction that precedes the use; an instruction's own
\* result does not count as bound before it.
C13_UnresolvedRaises ==
    Generated =>
        \A f \in DOMAIN oir.module.functions :
            Unresolved(oir.module.functions[f]) => wat.status = "error"

-----------------------------------------------------------------------------
(* The command-line drivers: compile_tir_to_wat, compile_tir_to_oir,        *)
(* lower_from_tir, optimize_oir, compile_oir_to_wat.                        *)

TirTools == {"compile_tir_to_wat", "compile_tir_to_oir", "lower_from_tir"}

OirTools == {"optimize_oir", "compile_oir_to_wat"}

\* a mutant of the program order: CSE ahead of const-fold
Stages_cse_first(tool) ==
    CASE tool = "compile_tir_to_wat" ->
           <<"load_tir", "lower", "cse", "const_fold", "dce", "validate_out",
             "write_oir", "codegen", "write_wat">>
      [] tool = "compile_tir_to_oir" ->
           <<"load_tir", "lower", "cse", "const_fold", "dce", "validate_out",
             "write_oir">>
      [] tool = "lower_from_tir" ->
           <<"load_tir", "lower", "validate_out", "write_oir">>
      [] tool = "optimize_oir" ->
           <<"load_oir", "validate_in", "cse", "const_fold", "dce",
             "validate_out", "write_oir">>
      [] OTHER -> <<"load_oir", "codegen", "write_wat">>

\* the stages of main() of each driver, in program order
Stages(tool) ==
    CASE tool = "compile_tir_to_wat" ->
           <<"load_tir", "lower", "const_fold", "cse", "dce", "validate_out",
             "write_oir", "codegen", "write_wat">>
      [] tool = "compile_tir_to_oir" ->
           <<"load_tir", "lower", "const_fold", "cse", "dce", "validate_out",
             "write_oir">>
      [] tool = "lower_from_tir" ->
           <<"load_tir", "lower", "validate_out", "write_oir">>
      [] tool = "optimize_oir" ->
           <<"load_oir", "validate_in", "const_fold", "cse", "dce",
             "validate_out", "write_oir">>
      [] OTHER -> <<"load_oir", "codegen", "write_wat">>

\* the condition under which main() enters a stage: if args.const_fold,
\* if args.cse, if args.dce, if args.validate_oir, if oir_out_path
Requested(d, stage) ==
    CASE stage = "const_fold" -> d.args.const_fold
      [] stage = "cse" -> d.args.cse
      [] stage = "dce" -> d.args.dce
      [] stage \in {"validate_in", "validate_out"} -> d.args.validate_oir
      [] stage = "write_oir" ->
           d.tool # "compile_tir_to_wat" \/ d.args.oir_out
      [] OTHER -> TRUE

\* the position of a stage in the program order of the driver
StageIndex(d, stage) ==
    CHOOSE k \in DOMAIN Stages(d.tool) : Stages(d.tool)[k] = stage

LaterStages(d, stage) ==
    {k \in DOMAIN Stages(d.tool) :
        k > StageIndex(d, stage) /\ Requested(d, Stages(d.tool)[k])}

\* the stage main() enters after stage; "exit" is the return at its end
NextStage(d, stage) ==
    IF LaterStages(d, stage) = {} THEN "exit"
    ELSE Stages(d.tool)[CHOOSE k \in LaterStages(d, stage) :
                            \A j \in LaterStages(d, stage) : k <= j]

\* the stage went through; main() returns 0 after its last stage
Completed(d, stage) ==
    [d EXCEPT !.trace = Append(@, stage), !.pc = NextStage(d, stage),
              !.code = IF NextStage(d, stage) = "exit" THEN 0 ELSE -1]

\* return code from inside a stage
Exit(d, stage, code) ==
    [d EXCEPT !.trace = Append(@, stage), !.pc = "exit", !.code = code]

\* load_tir(tir_path, validate=True): FileNotFoundError, a JSON error or
\* ValidationError, all caught by "except Exception"
DLoadTir ==
    /\ drv.pc = "load_tir"
    /\ drv' = IF drv.input = "ok" THEN Completed(drv, "load_tir")
              ELSE Exit(drv, "load_tir", 2)
    /\ UNCHANGED <<oir, orig, prev, hist, tir, report, wat, first>>

\* _load_json(in_path) of the O-IR drivers
DLoadOir ==
    /\ drv.pc = "load_oir"
    /\ drv' = IF drv.input = "ok" THEN Completed(drv, "load_oir")
              ELSE Exit(drv, "load_oir", 2)
    /\ UNCHANGED <<oir, orig, prev, hist, tir, report, wat, first>>

\* optimize_oir: validation of the input document
DValidateIn ==
    /\ drv.pc = "validate_in"
    /\ drv' = IF drv.valid_in THEN Completed(drv, "validate_in")
              ELSE Exit(drv, "validate_in", 1)
    /\ UNCHANGED <<oir, orig, prev, hist, tir, report, wat, first>>

\* lowerer = LowerFromTIR(cfg); oir = lowerer.lower(tir)
DLower ==
    /\ drv.pc = "lower"
    /\ drv' = Completed(drv, "lower")
    /\ oir' = lower(tir, report).oir
    /\ orig' = oir'
    /\ prev' = oir'
    /\ report' = lower(tir, report).report
    /\ UNCHANGED <<hist, tir, wat, first>>

\* if args.const_fold: oir = run_const_fold(oir), an exception returns 2
DConstFold ==
    /\ drv.pc = "const_fold"
    /\ IF drv.fault = "const_fold"
       THEN /\ drv' = Exit(drv, "const_fold", 2)
            /\ UNCHANGED <<oir, prev, hist>>
       ELSE /\ drv' = Completed(drv, "const_fold")
            /\ oir' = run_const_fold(oir)
            /\ prev' = oir
            /\ hist' = Append(hist, "const_fold")
    /\ UNCHANGED <<orig, tir, report, wat, first>>

\* if args.cse: oir = run_cse(oir)
DCse ==
    /\ drv.pc = "cse"
    /\ IF drv.fault = "cse"
       THEN /\ drv' = Exit(drv, "cse", 2)
            /\ UNCHANGED <<oir, prev, hist, report>>
       ELSE /\ drv' = Completed(drv, "cse")
            /\ oir' = run_cse(oir)
            /\ prev' = oir
            /\ hist' = Append(hist, "cse")
            /\ report' = ReportAfterCse(report, oir, oir')
    /\ UNCHANGED <<orig, tir, wat, first>>

\* if args.dce: oir = run_dce(oir)
DDce ==
    /\ drv.pc = "dce"
    /\ IF drv.fault = "dce"
       THEN /\ drv' = Exit(drv, "dce", 2)
            /\ UNCHANGED <<oir, prev, hist, report>>
       ELSE /\ drv' = Completed(drv, "dce")
            /\ oir' = run_dce(oir)
            /\ prev' = oir
            /\ hist' = Append(hist, "dce")
            /\ report' = ReportAfterDce(report, oir')
    /\ UNCHANGED <<orig, tir, wat, first>>

\* if args.validate_oir: errs = _validate_json(oir, OIR_SCHEMA_PATH)
DValidateOut ==
    /\ drv.pc = "validate_out"
    /\ drv' = IF drv.valid_out THEN Completed(drv, "validate_out")
              ELSE Exit(drv, "validate_out", 1)
    /\ UNCHANGED <<oir, orig, prev, hist, tir, report, wat, first>>

\* json.dump(oir, f) to the O-IR output path
DWriteOir ==
    /\ drv.pc = "write_oir"
    /\ drv' = [Completed(drv, "write_oir") EXCEPT !.files = @ \cup {"oir"}]
    /\ UNCHANGED <<oir, orig, prev, hist, tir, report, wat, first>>

\* a mutant of the codegen stage: the exception is swallowed
AfterCodegen_swallow(d, w) == Completed(d, "codegen")

\* try: wat_text = oir_to_wat(oir) except Exception: return 2
AfterCodegen(d, w) ==
    IF w.status = "error" THEN Exit(d, "codegen", 2)
    ELSE Completed(d, "codegen")

DCodegen ==
    /\ drv.pc = "codegen"
    /\ wat' = oir_to_wat(oir)
    /\ drv' = AfterCodegen(drv, wat')
    /\ UNCHANGED <<oir, orig, prev, hist, tir, report, first>>

\* the WAT text written to the output path
DWriteWat ==
    /\ drv.pc = "write_wat"
    /\ drv' = [Completed(drv, "write_wat") EXCEPT !.files = @ \cup {"wat"}]
    /\ UNCHANGED <<oir, orig, prev, hist, tir, report, wat, first>>

NextDriver ==
    \/ DLoadTir \/ DLoadOir \/ DValidateIn \/ DLower \/ DConstFold \/ DCse
    \/ DDce \/ DValidateOut \/ DWriteOir \/ DCodegen \/ DWriteWat

\* the command lines each driver accepts
DriverArgs(tool) ==
    {a \in [const_fold : BOOLEAN, cse : BOOLEAN, dce : BOOLEAN,
            validate_oir : BOOLEAN, oir_out : BOOLEAN] :
        /\ a.oir_out => tool = "compile_tir_to_wat"
        /\ (a.const_fold \/ a.cse \/ a.dce) =>
              tool \in {"compile_tir_to_wat", "compile_tir_to_oir", "optimize_oir"}
        /\ a.validate_oir => tool # "compile_oir_to_wat"}

\* the input file: readable ("ok"), absent, not JSON, or (T-IR) a document
\* that fails schema validation
DriverInputs(tool) ==
    {"ok", "missing", "malformed"}
    \cup (IF tool \in TirTools THEN {"invalid"} ELSE {})

\* the runs of the drivers: valid_in and valid_out are the verdicts of the
\* schema validator on the O-IR document, fault the pass that raises
DriverRuns ==
    {d \in [tool : TirTools \cup OirTools,
            args : DriverArgs("compile_tir_to_wat"),
            input : {"ok", "missing", "malformed", "invalid"},
            valid_in : BOOLEAN, valid_out : BOOLEAN,
            fault : {"", "const_fold", "cse", "dce"},
            pc : {"load_tir", "load_oir"}, code : {-1}, files : {{}},
            trace : {<<>>}] :
        /\ d.args \in DriverArgs(d.tool)
        /\ d.input \in DriverInputs(d.tool)
        /\ d.pc = Stages(d.tool)[1]
        /\ ~d.valid_in => (d.input = "ok" /\ d.tool = "optimize_oir"
                           /\ d.args.validate_oir)
        /\ ~d.valid_out => (d.input = "ok" /\ d.args.validate_oir)
        /\ d.fault # "" => (d.input = "ok" /\ Requested(d, d.fault))}

\* T-IR inputs: an identity definition, a proof, and an identity definition
\* next to one whose parameter name makes code generation fail
DriverTirs ==
    {Tir(<<Decl("Definition", "id", "data", Term("Lambda", "x", "Var", "x"))>>),
     Tir(<<Decl("Definition", "Thm1", "proof", NoTerm)>>),
     Tir(<<Decl("Definition", "id", "data", Term("Lambda", "x", "Var", "x")),
           Decl("Definition", "g", "data", Term("Lambda", "x-y", "Var", "x-y"))>>)}

\* O-IR inputs: a function that compiles, alone and ahead of one that does
\* not
DriverOirs ==
    {Doc(<<ArithFunction("f", TRUE, "add_i32", "%a", "%b", <<"%c">>)>>,
         <<>>, NoCerts),
     Doc(<<ArithFunction("f", TRUE, "add_i32", "%a", "%b", <<"%c">>),
           RefFunction(<<>>, <<"%z">>)>>, <<>>, NoCerts)}

InitDriver ==
    /\ drv \in DriverRuns
    /\ tir \in (IF drv.tool \in TirTools /\ drv.input = "ok"
                THEN DriverTirs ELSE {NoTir})
    /\ oir \in (IF drv.tool \in OirTools /\ drv.input = "ok"
                THEN DriverOirs ELSE {NoDoc})
    /\ orig = oir
    /\ prev = oir
    /\ hist = <<>>
    /\ report = NoReport
    /\ wat = NoWat
    /\ first = NoFirst

SpecDriver == InitDriver /\ [][NextDriver]_vars

\* the driver has returned
Exited == drv.pc = "exit"

\* the stage has been entered
Entered(stage) == stage \in Range(drv.trace)

\* code generation of the function alone raises
FuncRaises(fn) == _func_to_wat(fn).err # NoErr

\* stage a was entered before stage b
EnteredBefore(a, b) ==
    \E i, j \in DOMAIN drv.trace :
        i < j /\ drv.trace[i] = a /\ drv.trace[j] = b

\* C14: when code generation of one function of the module raises,
\* oir_to_wat gives no text at all, the driver writes no WAT file and returns
\* a non-zero code; a WAT file exists only after oir_to_wat has returned the
\* text of the whole module.
C14_NoPartialWat ==
    /\ (/\ Entered("codegen")
        /\ \E f \in DOMAIN oir.module.functions :
              FuncRaises(oir.module.functions[f]))
       => /\ wat.status = "error"
          /\ wat.text = ""
          /\ "wat" \notin drv.files
          /\ Exited
          /\ drv.code \in {1, 2}
    /\ "wat" \in drv.files =>
          /\ wat.status = "ok"
          /\ EnteredBefore("codegen", "write_wat")

\* compile_tir_to_wat on two identity definitions: the first function
\* compiles, the second raises, nothing is written
C14_Witness ==
    /\ drv.tool = "compile_tir_to_wat"
    /\ Entered("codegen")
    /\ Len(oir.module.functions) = 2
    /\ ~FuncRaises(oir.module.functions[1])
    /\ FuncRaises(oir.module.functions[2])
    /\ wat.status = "error"
    /\ Exited
    /\ drv.code = 2
    /\ "wat" \notin drv.files

\* C15: when compile_tir_to_wat returns after a stage has failed (load,
\* lowering, a pass, O-IR validation or code generation), no output file has
\* been written, neither the WAT file nor the intermediate O-IR file.
C15_NothingPersistedOnFailure ==
    (drv.tool = "compile_tir_to_wat" /\ Exited /\ drv.code # 0)
        => drv.files = {}

\* C16: in the drivers that load T-IR, a document that fails schema
\* validation ends the run with code 1 and a missing or unparsable file ends
\* it with code 2, both without any later stage; a failed O-IR schema
\* validation ends the run with code 1.
C16_ExitCodes ==
    /\ (drv.tool \in TirTools /\ Exited /\ drv.input = "invalid")
          => (drv.code = 1 /\ drv.trace = <<"load_tir">>)
    /\ (drv.tool \in TirTools /\ Exited
        /\ drv.input \in {"missing", "malformed"})
          => (drv.code = 2 /\ drv.trace = <<"load_tir">>)
    /\ (Entered("validate_in") /\ ~drv.valid_in) => (Exited /\ drv.code = 1)
    /\ (Entered("validate_out") /\ ~drv.valid_out) => (Exited /\ drv.code = 1)

\* the phase of a stage in the order of the claim: loading and lowering,
\* const-fold, CSE, DCE, output validation, writes and code generation
Phase(stage) ==
    CASE stage \in {"load_tir", "load_oir", "lower", "validate_in"} -> 1
      [] stage = "const_fold" -> 2
      [] stage = "cse" -> 3
      [] stage = "dce" -> 4
      [] stage = "validate_out" -> 5
      [] OTHER -> 6

\* the stage the run failed in, if any: a pass that raised, a validation
\* with errors, a code generation that raised
FailedStages ==
    {s \in {"const_fold", "cse", "dce"} : drv.fault = s /\ Entered(s)}
    \cup {s \in {"validate_in"} : Entered(s) /\ ~drv.valid_in}
    \cup {s \in {"validate_out"} : Entered(s) /\ ~drv.valid_out}
    \cup {s \in {"codegen"} : wat.status = "error"}

FlagOf(stage) ==
    CASE stage = "const_fold" -> drv.args.const_fold
      [] stage = "cse" -> drv.args.cse
      [] stage = "dce" -> drv.args.dce
      [] OTHER -> drv.args.validate_oir

\* C17: in optimize_oir, compile_tir_to_oir and compile_tir_to_wat no stage
\* runs twice; the passes run only when requested and in the order
\* const-fold, CSE, DCE, after loading and lowering and before the output
\* validation, which precedes every write and code generation; a stage that
\* fails is the last stage of the run, which then returns a non-zero code;
\* and a run that returns 0 has been through every requested stage.
C17_StageOrder ==
    drv.tool \in {"optimize_oir", "compile_tir_to_oir", "compile_tir_to_wat"} =>
        /\ NoDuplicates(drv.trace)
        /\ \A i, j \in DOMAIN drv.trace :
              i < j => \/ Phase(drv.trace[i]) < Phase(drv.trace[j])
                       \/ Phase(drv.trace[i]) = 1 /\ Phase(drv.trace[j]) = 1
                       \/ Phase(drv.trace[i]) = 6 /\ Phase(drv.trace[j]) = 6
        /\ \A s \in {"const_fold", "cse", "dce", "validate_out"} :
              /\ Entered(s) => FlagOf(s)
              /\ (Exited /\ drv.code = 0 /\ FlagOf(s)) => Entered(s)
        /\ \A s \in FailedStages :
              /\ drv.trace[Len(drv.trace)] = s
              /\ Exited
              /\ drv.code \in {1, 2}
        /\ (Exited /\ drv.code = 0) => FailedStages = {}

\* compile_tir_to_wat with the three passes and validation, run to the end
C17_Witness ==
    /\ drv.tool = "compile_tir_to_wat"
    /\ Exited
    /\ drv.code = 0
    /\ drv.trace = <<"load_tir", "lower", "const_fold", "cse", "dce",
                     "validate_out", "write_oir", "codegen", "write_wat">>
    /\ hist = <<"const_fold", "cse", "dce">>

-----------------------------------------------------------------------------
(* Dead chains and liveness across blocks.                                 *)

\* inst is pure and binds a result
PureBinding(inst) == inst.kind \in DroppableKinds /\ inst.bind.has

\* the uses of rid in fn apart from instruction j of block bk
UsedElsewhere(fn, rid, bk, j) ==
    \/ \E b \in DOMAIN fn.blocks : rid \in TermOperands(fn.blocks[b].term)
    \/ \E b \in DOMAIN fn.blocks : \E i \in DOMAIN fn.blocks[b].insts :
          (b # bk \/ i # j) /\ rid \in Operands(fn.blocks[b].insts[i])

\* in block bk of fn, instruction i feeds only instruction j, both are pure
\* and the result of j is unused in fn
DeadChain(fn, bk, i, j) ==
    /\ i < j
    /\ PureBinding(fn.blocks[bk].insts[i])
    /\ PureBinding(fn.blocks[bk].insts[j])
    /\ fn.blocks[bk].insts[j].bind.result \notin FnOperands(fn)
    /\ fn.blocks[bk].insts[i].bind.result
          \in Operands(fn.blocks[bk].insts[j])
    /\ ~UsedElsewhere(fn, fn.blocks[bk].insts[i].bind.result, bk, j)

\* C18: one run of run_dce that drops a pure instruction B with an unused
\* result also drops, with its own binding certificate, a pure instruction A
\* of the same block whose result is used only by B; after the run no pure
\* instruction with an unused result is left.
C18_CascadingRemoval ==
    Last = "dce" =>
        /\ \A fn \in Functions(prev) : \A bk \in DOMAIN fn.blocks :
              \A i, j \in DOMAIN fn.blocks[bk].insts :
                  DeadChain(fn, bk, i, j) =>
                      /\ CertifiedDead(fn, fn.blocks[bk].insts[j].bind.result)
                      /\ CertifiedDead(fn, fn.blocks[bk].insts[i].bind.result)
        /\ \A g \in Functions(oir) : \A bk \in DOMAIN g.blocks :
              \A i \in DOMAIN g.blocks[bk].insts :
                  PureBinding(g.blocks[bk].insts[i]) =>
                      g.blocks[bk].insts[i].bind.result \in FnOperands(g)

\* C19: run_dce drops a pure instruction only if its result id is unused in
\* the whole function: a result that is an operand of an instruction or of a
\* terminator of any block of the function, earlier or later, is not
\* certified as a dead binding.
C19_FunctionWideLiveness ==
    Last = "dce" =>
        \A fn \in Functions(prev) : \A bk \in DOMAIN fn.blocks :
            \A i \in DOMAIN fn.blocks[bk].insts :
                (/\ PureBinding(fn.blocks[bk].insts[i])
                 /\ fn.blocks[bk].insts[i].bind.result \in FnOperands(fn))
                => /\ ~CertifiedDead(fn, fn.blocks[bk].insts[i].bind.result)
                   /\ \E g \in Functions(oir) :
                         /\ g.name = fn.name
                         /\ fn.blocks[bk].insts[i] \in Range(g.blocks[bk].insts)

-----------------------------------------------------------------------------
(* Substitution by CSE.                                                    *)

\* a Const with a result id
IsKeyedConst(inst) ==
    inst.kind = "Const" /\ inst.bind.has /\ IsValueId(inst.bind.result)

\* the type of the key of a Const: value.ty, or the type of the bind
KeyType(inst) == IF inst.cvalue.ty # "" THEN inst.cvalue.ty ELSE inst.bind.ty

\* equal literals; numbers are equal by value (1 and 1.0)
SameLiteral(a, b) == LitKey(a) = LitKey(b)

SameKey(x, y) ==
    KeyType(x) = KeyType(y) /\ SameLiteral(x.cvalue.value, y.cvalue.value)

\* the Consts of bb before instruction i with the key of instruction i
EarlierWithKey(bb, i) ==
    {j \in 1..(i - 1) :
        IsKeyedConst(bb.insts[j]) /\ SameKey(bb.insts[j], bb.insts[i])}

\* instruction i of bb is a Const whose key has occurred before in bb
IsDup(bb, i) == IsKeyedConst(bb.insts[i]) /\ EarlierWithKey(bb, i) # {}

\* the result id of the first Const of bb with the key of the duplicate i
CanonicalOf(bb, i) ==
    bb.insts[CHOOSE j \in EarlierWithKey(bb, i) :
                 \A k \in EarlierWithKey(bb, i) : j <= k].bind.result

\* the duplicates of bb before position i that bind v
DupsBefore(bb, v, i) ==
    {d \in 1..(i - 1) : d \in DOMAIN bb.insts /\ IsDup(bb, d)
                        /\ bb.insts[d].bind.result = v}

\* what a use of v at position i of bb names once the duplicates are gone
CanonId(bb, v, i) ==
    IF DupsBefore(bb, v, i) = {} THEN v
    ELSE CanonicalOf(bb, CHOOSE d \in DupsBefore(bb, v, i) :
                             \A e \in DupsBefore(bb, v, i) : e <= d)

\* the instructions of bb that are no duplicates, and the place of
\* instruction i among them
KeptIndices(bb) == {i \in DOMAIN bb.insts : ~IsDup(bb, i)}

KeptPlace(bb, i) == Cardinality({k \in KeptIndices(bb) : k <= i})

\* how many duplicates of fn bind rid
DupCount(fn, rid) ==
    Cardinality({<<b, i>> \in UNION {{<<b, i>> : i \in DOMAIN fn.blocks[b].insts} :
                                        b \in DOMAIN fn.blocks} :
                    IsDup(fn.blocks[b], i)
                    /\ fn.blocks[b].insts[i].bind.result = rid})

\* how many of the certificates appended by the last operation equal c
NewCertCount(c) ==
    Cardinality({k \in DOMAIN NewDceCerts : NewDceCerts[k] = c})

\* block gb is block bb after CSE: the first Const of every key is kept, the
\* later ones are gone, every use names the canonical id, and the Const of
\* the canonical id has the type and the literal of the dropped one
CseComplete(bb, gb) ==
    /\ Len(gb.insts) = Cardinality(KeptIndices(bb))
    /\ \A i \in KeptIndices(bb) :
          /\ IsKeyedConst(bb.insts[i]) => gb.insts[KeptPlace(bb, i)] = bb.insts[i]
          /\ Operands(gb.insts[KeptPlace(bb, i)])
                = {CanonId(bb, v, i) : v \in Operands(bb.insts[i])}
    /\ TermOperands(gb.term)
          = {CanonId(bb, v, Len(bb.insts) + 1) : v \in TermOperands(bb.term)}
    /\ \A d \in DOMAIN bb.insts :
          IsDup(bb, d) =>
              \E m \in DOMAIN gb.insts :
                  /\ IsKeyedConst(gb.insts[m])
                  /\ gb.insts[m].bind.result = CanonicalOf(bb, d)
                  /\ gb.insts[m].bind.ty = bb.insts[d].bind.ty
                  /\ SameKey(gb.insts[m], bb.insts[d])

\* C20: in each block run_cse keeps the first Const of every (type, literal)
\* key, drops every later Const of the key with exactly one certificate
\* {symbol: fn_name+old_id, kind: "binding"}, and leaves no instruction
\* operand and no terminator operand of the block naming a dropped id: the
\* use names the canonical id, whose Const has the same type and literal.
C20_CseSubstitution ==
    Last = "cse" =>
        \A f \in DOMAIN prev.module.functions :
            /\ \A b \in DOMAIN prev.module.functions[f].blocks :
                  CseComplete(prev.module.functions[f].blocks[b],
                              oir.module.functions[f].blocks[b])
            /\ \A rid \in Range(FnResults(prev.module.functions[f])) :
                  NewCertCount(Cert(prev.module.functions[f].name \o rid, "binding"))
                      = DupCount(prev.module.functions[f], rid)

\* %b duplicates %a and is used by an instruction and by the terminator,
\* which name %a after run_cse
C20_Witness ==
    /\ hist = <<"cse">>
    /\ LET bb == prev.module.functions[1].blocks[1]
           gb == oir.module.functions[1].blocks[1]
       IN  /\ Len(bb.insts) >= 3
           /\ IsDup(bb, 2)
           /\ bb.insts[2].bind.result = "%b"
           /\ CanonicalOf(bb, 2) = "%a"
           /\ "%b" \in Operands(bb.insts[3])
           /\ "%b" \in TermOperands(bb.term)
           /\ "%b" \notin Operands(gb.insts[2]) \cup TermOperands(gb.term)
           /\ "%a" \in Operands(gb.insts[2]) \cap TermOperands(gb.term)
           /\ Cert("f%b", "binding") \in Range(NewDceCerts)

-----------------------------------------------------------------------------
(* Well-formedness under the passes.                                       *)

\* C21: if in the input module result ids are unique per function and every
\* operand of every instruction and terminator names a parameter or a result
\* bound earlier in the same block, the same holds after any sequence of
\* run_const_fold, run_cse and run_dce.
C21_WellFormedPreserved == WellFormed(orig) => WellFormed(oir)

\* two passes that both changed a well-formed module, the first by
\* substituting a duplicate constant, the second by removing an instruction
C21_Witness ==
    /\ WellFormed(orig)
    /\ hist = <<"cse", "dce">>
    /\ prev # orig
    /\ \E f \in Functions(prev) : \E g \in Functions(oir) :
          /\ f.name = g.name
          /\ Len(g.blocks[1].insts) < Len(f.blocks[1].insts)
          /\ g.blocks[1].insts # <<>>

-----------------------------------------------------------------------------
(* The evaluation family: one exported function f(x: i32) -> i32 of one    *)
(* block over Const, neg_i32/not_i32 and add/sub/mul_i32.                  *)

EvalSlot1 == {Const("%a", "i32", I(1)), Const("%a", "i32", MASK32)}

EvalSlot2 ==
    {Const("%b", "i32", I(1)), Unary("%b", "i32", "neg_i32", "%a"),
     Unary("%b", "i32", "not_i32", "%x"), Unary("%b", "i32", "neg_i32", "%x")}

EvalOperands ==
    {<<"%a", "%b">>, <<"%b", "%a">>, <<"%b", "%x">>, <<"%x", "%x">>, <<"%b", "%b">>}

EvalSlot3 ==
    {Binary("%c", "i32", op, xy[1], xy[2]) :
        op \in {"add_i32", "sub_i32", "mul_i32"}, xy \in EvalOperands}

EvalSlot4 ==
    Opt({Unary("%d", "i32", "neg_i32", "%c"), Unary("%d", "i32", "not_i32", "%c"),
         Const("%d", "i32", I(1)), Binary("%d", "i32", "mul_i32", "%c", "%b")})

InitEval ==
    /\ \E s1 \in EvalSlot1, s2 \in EvalSlot2, s3 \in EvalSlot3, s4 \in EvalSlot4,
          r \in {"%c", "%d", "%b"} :
          oir = Doc(<<Function("f", <<Param("x", "i32")>>, <<"i32">>,
                               <<Block("entry", <<s1, s2, s3>> \o s4,
                                       Return(<<r>>))>>,
                               TRUE, "internal")>>,
                    <<>>, NoCerts)
    /\ orig = oir
    /\ prev = oir
    /\ hist = <<>>
    /\ tir = NoTir
    /\ report = NoReport
    /\ wat = NoWat
    /\ first = NoFirst
    /\ drv = NoDriver

SpecEval == InitEval /\ [][NextOpt]_vars

\* the arguments the function is evaluated on: 0, 1, 2^31 and 2^32 - 1
ArgValues == {I(0), I(1), BigInt(FALSE, <<0, 0, 0, 128>>), MASK32}

\* reduction of an integer to its residue in 0..2^32-1
Wrap32(v) == BigAnd(v, MASK32)

\* the value of an id that no environment binds
Undefined == None

ValueOf(env, id) == IF id \in DOMAIN env THEN env[id] ELSE Undefined

\* the 32-bit wraparound semantics of the operations, on residues
ApplyOp(op, a, b) ==
    IF a = Undefined \/ b = Undefined THEN Undefined
    ELSE CASE op = "neg_i32" -> Wrap32(BigSub(I(0), a))
           [] op = "not_i32" -> BigSub(MASK32, a)
           [] op = "add_i32" -> Wrap32(BigAdd(a, b))
           [] op = "sub_i32" -> Wrap32(BigSub(a, b))
           [] op = "mul_i32" -> Wrap32(BigMul(a, b))
           [] OTHER -> Undefined

InstValue(inst, env) ==
    CASE inst.kind = "Const" ->
            IF inst.cvalue.value.t = "int" THEN Wrap32(inst.cvalue.value)
            ELSE Undefined
      [] inst.kind = "Unary" -> ApplyOp(inst.op, ValueOf(env, inst.arg), I(0))
      [] inst.kind = "Binary" ->
            ApplyOp(inst.op, ValueOf(env, inst.lhs), ValueOf(env, inst.rhs))
      [] OTHER -> Undefined

\* the instructions bind their results one after the other
RECURSIVE EvalInsts(_, _)
EvalInsts(insts, env) ==
    IF insts = <<>> THEN env
    ELSE EvalInsts(Tail(insts),
                   EnvPut(env, Head(insts).bind.result, InstValue(Head(insts), env)))

\* the value fn returns on the argument x for its only parameter
EvalFn(fn, x) ==
    ValueOf(EvalInsts(fn.blocks[1].insts,
                      [p \in {"%" \o fn.params[1].name} |-> x]),
            fn.blocks[1].term.values[1])

\* a well-formed single-block function over i32 that returns one value
IsI32Arith(fn) ==
    /\ WellFormedFn(fn)
    /\ Len(fn.blocks) = 1
    /\ Len(fn.params) = 1 /\ fn.params[1].ty = "i32"
    /\ fn.results = <<"i32">>
    /\ fn.blocks[1].term.kind = "Return" /\ Len(fn.blocks[1].term.values) = 1
    /\ \A i \in DOMAIN fn.blocks[1].insts :
          LET inst == fn.blocks[1].insts[i]
          IN  /\ inst.bind.has /\ inst.bind.ty = "i32"
              /\ \/ /\ inst.kind = "Const"
                    /\ inst.cvalue.ty = "i32" /\ inst.cvalue.value.t = "int"
                 \/ inst.kind = "Unary" /\ inst.op \in {"neg_i32", "not_i32"}
                 \/ inst.kind = "Binary" /\ inst.op \in {"add_i32", "sub_i32", "mul_i32"}

\* C22: for every well-formed single-block function over i32 built from
\* Const, neg_i32/not_i32 and add/sub/mul_i32 that returns one value, and
\* for every argument, the return value under 32-bit wraparound is the same
\* before and after any sequence of run_const_fold, run_cse and run_dce.
C22_ResultPreserved ==
    \A f \in Functions(orig) : IsI32Arith(f) =>
        /\ \E g \in Functions(oir) : g.name = f.name
        /\ \A g \in Functions(oir) : g.name = f.name =>
              \A x \in ArgValues :
                  /\ EvalFn(f, x) # Undefined
                  /\ EvalFn(g, x) = EvalFn(f, x)

\* folding, substitution and removal have all changed a function of the
\* family whose result depends on a negation that was folded
C22_Witness ==
    /\ Len(hist) = 2 /\ hist[1] = "const_fold"
    /\ \E f \in Functions(orig) : \E g \in Functions(oir) :
          /\ IsI32Arith(f) /\ g.name = f.name
          /\ f.blocks[1].insts[2].kind = "Unary"
          /\ f.blocks[1].insts[2].op = "neg_i32"
          /\ \A i \in DOMAIN g.blocks[1].insts : g.blocks[1].insts[i].kind = "Const"
          /\ Len(g.blocks[1].insts) < Len(f.blocks[1].insts)

-----------------------------------------------------------------------------
(* Folding of unary operations.                                            *)

\* lit is an integer in 0..2^(8*w)-1
InUnsignedRange(lit, w) == lit.t = "int" /\ ~lit.neg /\ Len(lit.mag) <= w

\* the instruction at place i of block b of function f: a Unary with one of
\* the operations before the last pass, a Const after it
UnaryFoldedAt(f, b, i, ops) ==
    /\ f \in DOMAIN oir.module.functions
    /\ b \in DOMAIN oir.module.functions[f].blocks
    /\ i \in DOMAIN oir.module.functions[f].blocks[b].insts
    /\ prev.module.functions[f].blocks[b].insts[i].kind = "Unary"
    /\ prev.module.functions[f].blocks[b].insts[i].op \in ops
    /\ oir.module.functions[f].blocks[b].insts[i].kind = "Const"

\* C23: when run_const_fold folds neg_i32 or not_i32 (neg_i64 or not_i64) on
\* a known constant, the literal of the resulting Const lies in 0..2^32-1
\* (0..2^64-1).
C23_UnaryFoldWraps ==
    Last = "const_fold" =>
        \A f \in DOMAIN prev.module.functions :
            \A b \in DOMAIN prev.module.functions[f].blocks :
                \A i \in DOMAIN prev.module.functions[f].blocks[b].insts :
                    /\ UnaryFoldedAt(f, b, i, {"neg_i32", "not_i32"}) =>
                          InUnsignedRange(
                              oir.module.functions[f].blocks[b].insts[i].cvalue.value, 4)
                    /\ UnaryFoldedAt(f, b, i, {"neg_i64", "not_i64"}) =>
                          InUnsignedRange(
                              oir.module.functions[f].blocks[b].insts[i].cvalue.value, 8)

-----------------------------------------------------------------------------
(* Types of the operands of a folded Binary.                               *)

\* the recorded types (value.ty, else bind.ty) of the Consts that bind rid
\* among the first n - 1 instructions of a block
ConstTypesBefore(bb, n, rid) ==
    {IF bb.insts[j].cvalue.ty # "" THEN bb.insts[j].cvalue.ty
     ELSE bb.insts[j].bind.ty :
        j \in {j \in 1..(n - 1) : /\ bb.insts[j].kind = "Const"
                                  /\ bb.insts[j].bind.has
                                  /\ bb.insts[j].bind.result = rid}}

\* the Binary at place i of bbPrev was replaced by a Const
BinaryFoldedAt(bbPrev, bbNow, i) ==
    /\ i \in DOMAIN bbNow.insts
    /\ bbPrev.insts[i].kind = "Binary"
    /\ bbNow.insts[i].kind = "Const"

\* both operands of the Binary are constants of the bind type of the Binary
OperandTypesAgree(bbNow, i, inst) ==
    /\ ConstTypesBefore(bbNow, i, inst.lhs) = {inst.bind.ty}
    /\ ConstTypesBefore(bbNow, i, inst.rhs) = {inst.bind.ty}

\* C24: run_const_fold replaces a Binary by a Const only if both operands
\* are known constants whose recorded types are equal to each other and to
\* the type of the operation; otherwise the Binary passes through unchanged.
C24_FoldSameType ==
    Last = "const_fold" =>
        \A f \in DOMAIN prev.module.functions :
            \A b \in DOMAIN prev.module.functions[f].blocks :
                \A i \in DOMAIN prev.module.functions[f].blocks[b].insts :
                    BinaryFoldedAt(prev.module.functions[f].blocks[b],
                                   oir.module.functions[f].blocks[b], i)
                    => OperandTypesAgree(oir.module.functions[f].blocks[b], i,
                                         prev.module.functions[f].blocks[b].insts[i])

-----------------------------------------------------------------------------
(* Code generation for lowered modules.                                    *)

\* the place of a pass in the order const_fold, cse, dce
PassRank(p) == CASE p = "const_fold" -> 1 [] p = "cse" -> 2 [] p = "dce" -> 3

\* the passes applied are a subset of the three, in that order
PassesInOrder == \A i, j \in DOMAIN hist : i < j => PassRank(hist[i]) < PassRank(hist[j])

\* C25: the O-IR module returned by lower() for a T-IR module with any
\* declaration and parameter names, after any subset of run_const_fold,
\* run_cse, run_dce applied in that order, is compiled by oir_to_wat without
\* raising.
C25_LoweredCompiles ==
    (Lowered /\ Generated /\ PassesInOrder) => wat.status = "ok"

-----------------------------------------------------------------------------
(* The code generation family: a function with supported and unsupported   *)
(* constructs, unit types and names that are not WAT identifiers, alone or *)
(* after a function that compiles.                                         *)

KNames == {"k", "a-b"}

KParams == {Param("x", "i32"), Param("x", "unit"), Param("p-q", "i32")}

KResults == {<<>>, <<"i32">>, <<"unit">>, <<"i32", "i32">>}

KInst1 == Opt({Const("%a", "i32", I(1)), Const("%r-1", "i32", I(1))})

\* the second instruction, over the value id x of the parameter
KInst2(x) ==
    Opt({Load("%b", "i32", x), Store(x, x), HeapNew("%b", "i32", <<x>>),
         HeapGet("%b", "i32", x), HeapSet(x, x), Guard(x),
         TagOf("%b", "i32", x), LenOf("%b", "i32", x),
         Unary("%b", "f32", "sqrt_f32", x), Unary("%b", "i32", "neg_i32", x),
         Binary("%b", "i32", "pow_i32", x, x), Binary("%b", "i32", "add_i32", x, x),
         Call("g!h", <<x>>, <<Bind("%b", "i32"), Bind("%c", "i32")>>),
         Call("g!h", <<x>>, <<Bind("%b", "i32")>>),
         Call("g", <<>>, <<>>)})

KTerms(x) ==
    {Return(<<>>), Return(<<x>>), Return(<<"%r-1">>), Return(<<x, x>>),
     Br("next", <<>>), Trap}

InitGen ==
    /\ \E n \in KNames, p \in KParams, rs \in KResults, i1 \in KInst1,
          h \in Opt({HelperH}) :
          \E i2 \in KInst2("%" \o p.name), t \in KTerms("%" \o p.name) :
              oir = Doc(h \o <<Function(n, <<p>>, rs,
                                        <<Block("entry", i1 \o i2, t)>>,
                                        TRUE, "internal")>>,
                        <<>>, NoCerts)
    /\ orig = oir
    /\ prev = oir
    /\ hist = <<>>
    /\ tir = NoTir
    /\ report = NoReport
    /\ wat = NoWat
    /\ first = NoFirst
    /\ drv = NoDriver

NextGen == OirToWat

SpecGen == InitGen /\ [][NextGen]_vars

-----------------------------------------------------------------------------
(* Unsupported constructs.                                                 *)

UnsupportedKinds ==
    {"Load", "Store", "HeapNew", "HeapGet", "HeapSet", "Guard", "TagOf", "LenOf"}

UnsupportedInst(inst) ==
    \/ inst.kind \in UnsupportedKinds
    \/ /\ inst.kind = "Unary"
       /\ inst.op \notin {"neg_i32", "neg_i64", "not_i32", "not_i64"}
                         \cup DOMAIN _unop_to_wat
    \/ inst.kind = "Binary" /\ inst.op \notin DOMAIN _binop_to_wat
    \/ inst.kind = "Call" /\ Len(inst.binds) > 1

\* fn holds one of the constructs code generation does not support
HasUnsupported(fn) ==
    \/ \E i \in DOMAIN fn.blocks[1].insts : UnsupportedInst(fn.blocks[1].insts[i])
    \/ Len(fn.results) > 1
    \/ fn.blocks[1].term.kind # "Return"
    \/ Len(fn.blocks[1].term.values) > 1

-----------------------------------------------------------------------------
(* The unit type in signatures.                                            *)

\* fn has a parameter or a result of type unit
HasUnitSignature(fn) ==
    \/ \E p \in DOMAIN fn.params : fn.params[p].ty = "unit"
    \/ \E r \in DOMAIN fn.results : fn.results[r] = "unit"

\* C27: oir_to_wat raises for every function that has a parameter or a
\* result of type unit; no (param ...) or (result ...) form with an empty
\* type is ever emitted.
C27_UnitRejected ==
    Generated =>
        /\ \A fn \in Functions(oir) : HasUnitSignature(fn) => wat.status = "error"
        /\ wat.status = "ok" =>
              /\ ~Contains(wat.text, "(result )")
              /\ \A fn \in Functions(oir) : \A p \in DOMAIN fn.params :
                    ~Contains(wat.text, "(param $" \o _sanitize_sym(fn.params[p].name)
                                        \o " )")

-----------------------------------------------------------------------------
(* Identifiers of the generated text.                                      *)

\* the characters of a sanitized symbol: letters, digits, '_', '.' and '/'
IdentChars == WordChars \cup {".", "/"}

\* the characters that end an identifier in the text
IdentEnd == {" ", ")", "\n", "\""}

CharAt(text, i) == SubSeq(text, i, i)

\* the identifier of text that starts at position i consists of IdentChars
CleanFrom(text, i) ==
    \A j \in i..Len(text) :
        (\A k \in i..j : CharAt(text, k) \notin IdentEnd)
            => CharAt(text, j) \in IdentChars

\* C28: in any text returned by oir_to_wat, every identifier after a '$' and
\* every export name consists only of letters, digits, '_', '.' and '/'.
C28_IdentifiersSanitized ==
    wat.status = "ok" =>
        \A i \in 1..Len(wat.text) :
            /\ CharAt(wat.text, i) = "$" => CleanFrom(wat.text, i + 1)
            /\ MatchAt(wat.text, "(export \"", i) => CleanFrom(wat.text, i + 9)

-----------------------------------------------------------------------------
(* Repeated dead-code elimination.                                         *)

\* the number of runs of run_dce applied to one document
MaxRuns == 9

\* one more run of run_dce on the document
RunDceAgain ==
    /\ Len(hist) < MaxRuns
    /\ oir' = run_dce(oir)
    /\ prev' = oir
    /\ hist' = Append(hist, "dce")
    /\ report' = ReportAfterDce(report, oir')
    /\ UNCHANGED <<orig, tir, wat, drv, first>>

SpecFix == InitDce /\ [][RunDceAgain]_vars

\* the places of the pure instructions of a module
PurePlaces(doc) ==
    {<<f, b, i>> \in (DOMAIN doc.module.functions) \X (1..2) \X (1..3) :
        /\ b \in DOMAIN doc.module.functions[f].blocks
        /\ i \in DOMAIN doc.module.functions[f].blocks[b].insts
        /\ doc.module.functions[f].blocks[b].insts[i].kind \in DroppableKinds}

\* number of functions + number of pure instructions
FixBound(doc) == Len(doc.module.functions) + Cardinality(PurePlaces(doc))

\* no block holds a pure instruction whose result id is named by no
\* instruction operand and no terminator of its function
NoDeadPure(doc) ==
    \A g \in Functions(doc) : \A bk \in DOMAIN g.blocks :
        \A i \in DOMAIN g.blocks[bk].insts :
            PureBinding(g.blocks[bk].insts[i]) =>
                g.blocks[bk].insts[i].bind.result \in FnOperands(g)

\* C29: after at most (number of functions + number of pure instructions)
\* runs of run_dce the module is one on which a further run removes nothing
\* and appends no certificate, and in which no block holds a pure
\* instruction whose result id is named by no instruction operand and no
\* terminator of its function.
C29_DceFixedPoint ==
    OnlyDce =>
        /\ Len(hist) >= FixBound(orig) => NoDeadPure(oir)
        /\ Len(hist) > FixBound(orig) => oir = prev

\* a chain of three dead pure instructions was removed, and the run after
\* the bound changed nothing
C29_Witness ==
    /\ OnlyDce
    /\ Len(hist) = FixBound(orig) + 1
    /\ oir = prev
    /\ Len(orig.module.functions[1].blocks[1].insts) = 3
    /\ \A i \in 1..3 : PureBinding(orig.module.functions[1].blocks[1].insts[i])
    /\ DeadChain(orig.module.functions[1], 1, 2, 3)
    /\ oir.module.functions[1].blocks[1].insts = <<>>
    /\ Len(oir.certificates.dce) >= 3

-----------------------------------------------------------------------------
(* Two lower() calls on one LowerFromTIR instance.                         *)

\* the T-IR modules given to the two calls: proofs only, an identity
\* definition, both, and a definition that is skipped
TwoTirs ==
    {Tir(<<Decl("Definition", "Thm1", "proof", NoTerm)>>),
     Tir(<<Decl("Definition", "Thm2", "proof", NoTerm),
           Decl("Definition", "Thm3", "proof", NoTerm)>>),
     Tir(<<Decl("Definition", "id", "data", Term("Lambda", "x", "Var", "x"))>>),
     Tir(<<Decl("Definition", "Thm1", "proof", NoTerm),
           Decl("Definition", "id", "data", Term("Lambda", "x", "Var", "x"))>>),
     Tir(<<Decl("Definition", "g", "data", Term("App", "", "", ""))>>)}

\* the first T-IR module in the hands of a fresh lowerer
InitTwo ==
    /\ tir \in TwoTirs
    /\ oir = NoDoc
    /\ orig = NoDoc
    /\ prev = NoDoc
    /\ hist = <<>>
    /\ report = NoReport
    /\ wat = NoWat
    /\ first = NoFirst
    /\ drv = NoDriver

\* a second call lower(t2) on the same instance: self.report goes on
\* collecting, and the lists of the returned certificates are again the
\* lists of self.report; the passes applied from here on run on the new
\* module
LowerAgain ==
    /\ oir # NoDoc
    /\ first = NoFirst
    /\ \E t2 \in TwoTirs :
          LET r == lower(t2, report)
          IN  /\ first' = [tir |-> tir, doc |-> oir, dceShared |-> report.dceShared]
              /\ tir' = t2
              /\ oir' = r.oir
              /\ orig' = r.oir
              /\ prev' = r.oir
              /\ report' = r.report
    /\ hist' = <<>>
    /\ UNCHANGED <<wat, drv>>

NextTwo == Lower \/ RunConstFold \/ RunCse \/ RunDce \/ LowerAgain

SpecTwo == InitTwo /\ [][NextTwo]_vars

\* the certificate lists of the module of the earlier call as they are now:
\* erasure and guards are the lists of the report, dce as well unless a pass
\* gave that module a list of its own
FirstCerts ==
    [erasure |-> report.erasure,
     dce |-> IF first.dceShared THEN report.dce ELSE first.doc.certificates.dce,
     guards |-> report.guards]

\* the erasure certificates of the proof definitions of t, in order
ProofCerts(t) ==
    LET proofs == SelectSeq(t.module.decls,
                            LAMBDA d : d.kind = "Definition"
                                       /\ d.proof_relevance = "proof")
    IN  [k \in DOMAIN proofs |->
            [symbol |-> proofs[k].name, reason |-> "proof-irrelevant"]]

\* C30: for any sequence of lower() calls on one LowerFromTIR instance with
\* passes run in between, the certificates.erasure of each returned module
\* lists exactly the proof definitions of the T-IR given to that call, and
\* running a pass on one returned module changes no certificate list of
\* another returned module.
C30_IndependentModules ==
    /\ oir # NoDoc => oir.certificates.erasure = ProofCerts(tir)
    /\ first # NoFirst =>
          /\ FirstCerts.erasure = ProofCerts(first.tir)
          /\ FirstCerts.dce = first.doc.certificates.dce
          /\ FirstCerts.guards = first.doc.certificates.guards

====
